---- MODULE Spec2Model ----
(***************************************************************************)
(* Discrete-event emergency-medical-services simulation (src/ems_core.py). *)
(* Times are whole seconds, distances whole metres; a grid location is a   *)
(* pair <<row, col>>.  The Python dicts are functions, Python lists are    *)
(* sequences, and None is the value NoCall / NoVid.                        *)
(***************************************************************************)
EXTENDS Integers, Sequences, FiniteSets, TLC

\* ------------------------------------------------------------ bounds

\* number of calls handed to Simulation(calls, ...)
NumCalls == 3
\* run(t_start, t_end, warmup_buffer): the arguments of the run under study
t_start == 1200
t_end == 3000
warmup_buffer == 600

\* ------------------------------------------------------------ program constants

\* TravelTimeModel.cell_km = 2.0, in metres
cell_m == 2000
\* cell_km * sqrt(2) in metres, rounded down to the metre
diag_m == 2828
\* Simulation.loc_update_period = 120.0 seconds
loc_update_period == 120

NoCall == 0 - 1
NoVid == 0 - 1

\* ------------------------------------------------------------ inputs

\* TravelTimeModel.default_speed_kmph: 45.0 by default, an assignable attribute
Speeds == {45, 60}

\* stations: station_id -> grid_rc
stations == (0 :> <<10, 10>>) @@ (1 :> <<10, 12>>)

\* allocation: station_id -> counts per kind (build_vehicles_from_allocation's input)
Allocations ==
  { (0 :> [A |-> 1, R |-> 0]) @@ (1 :> [A |-> 0, R |-> 0]),
    (0 :> [A |-> 1, R |-> 0]) @@ (1 :> [A |-> 0, R |-> 1]),
    (0 :> [A |-> 1, R |-> 0]) @@ (1 :> [A |-> 1, R |-> 0]),
    (0 :> [A |-> 0, R |-> 1]) @@ (1 :> [A |-> 1, R |-> 0]) }

\* arrival times of calls: before the warm-up window, inside it, inside the
\* measured window, and at or after t_end
CallTimes == {0, 600, 1200, 1230, 3000}

\* the per-call data other than call_id and t_call
CallProfiles ==
  { [dispatch_delay |-> 30, scene_time |-> 600, hospital_time |-> 900, handover_time |-> 300,
     need_ambulances |-> 1, need_rrc |-> 0, category |-> "cardiac",
     loc_scene |-> <<10, 12>>, loc_hospital |-> <<11, 11>>],
    [dispatch_delay |-> 30, scene_time |-> 0, hospital_time |-> 900, handover_time |-> 300,
     need_ambulances |-> 1, need_rrc |-> 1, category |-> "catA",
     loc_scene |-> <<10, 12>>, loc_hospital |-> <<10, 10>>],
    [dispatch_delay |-> 0, scene_time |-> 600, hospital_time |-> 0, handover_time |-> 0,
     need_ambulances |-> 2, need_rrc |-> 0, category |-> "catA",
     loc_scene |-> <<10, 11>>, loc_hospital |-> <<10, 10>>],
    [dispatch_delay |-> 30, scene_time |-> 600, hospital_time |-> 900, handover_time |-> 300,
     need_ambulances |-> 0, need_rrc |-> 1, category |-> "catC",
     loc_scene |-> <<10, 12>>, loc_hospital |-> <<10, 10>>] }

\* ------------------------------------------------------------ state

VARIABLES
  calls,             \* Simulation.calls: sequence of Call records sorted by t_call
  speed,             \* travel.default_speed_kmph
  vehicles,          \* Simulation.vehicles: vehicle_id -> Vehicle record
  event_q,           \* Simulation.event_q: the heapq array of Event records
  wait_q,            \* Simulation.wait_q: sequence of call ids
  now,               \* Simulation.now
  response_times,    \* Simulation.response_times: call_id -> seconds
  call_assignments,  \* Simulation.call_assignments: call_id -> sequence of vehicle ids
  pc,                \* position inside run(): "init", "warmup", "study", "done"
  nseq,              \* history: number of events pushed so far (insertion sequence)
  handled,           \* history: the event handled by the last step (etype "NONE" when none)
  popFifo,           \* history: the last pop took the earliest-pushed event among those of least time
  pushed,            \* history: the events pushed by the last step, in order
  attempts,          \* history: the _dispatch calls of the last step, in order
  freed,             \* history: vehicles made available by the last step
  disp,              \* history: call_id -> how and when the call was dispatched
  holding,           \* history: call_id -> vehicles assigned to the call and not yet released by it
  kpi,               \* what run() returned (NoKpi before it returns)
  sim_stations,      \* Simulation.stations: station_id -> grid_rc
  warmup,            \* the warmup_buffer argument of run()
  opt,               \* GAOptimizer: the fields set once by __init__
  stations_fixed,    \* GAOptimizer.stations_fixed: the dict object the caller passed in
  chrom,             \* the genotype handed to _decode
  outs,              \* history: what the _decode calls so far returned, in order
  evals,             \* history: the _fitness calls so far: genotype and returned value, in order
  ga_cfg,            \* GAOptimizer.ga_cfg: pop_size, rm (in percent), elite_k, generations
  run,               \* GAOptimizer.run(): its locals P, F, P_next, best_ch, best_fit, gen and its position pc
  heap,              \* the list objects that P and P_next refer to: reference -> genes
  ghist              \* history of run(): evaluations made, their best value and the genotypes that reached it,
                     \* the genes of the elites and the mutations of the generation being built

\* the simulation's variables
simVars == <<calls, speed, vehicles, event_q, wait_q, now, response_times, call_assignments,
             pc, nseq, handled, popFifo, pushed, attempts, freed, disp, holding, kpi,
             sim_stations, warmup>>
\* the optimizer's variables
\* the variables of GAOptimizer.run()
runVars == <<ga_cfg, run, heap, ghist>>
gaVars == <<opt, stations_fixed, chrom, outs, evals, runVars>>

vars == <<simVars, gaVars>>

\* ------------------------------------------------------------ helpers

Abs(x) == IF x < 0 THEN 0 - x ELSE x
Min2(a, b) == IF a < b THEN a ELSE b
Max2(a, b) == IF a > b THEN a ELSE b

NoEvent == [time |-> 0, etype |-> "NONE", call |-> NoCall, vid |-> NoVid, seq |-> 0 - 1]

\* id_to_call[call_id] (call ids are the positions in the sorted list)
CallOf(cid) == calls[cid]

\* ------------------------------------------------------------ TravelTimeModel

\* TravelTimeModel._speed_kmph with minute_of_week_speeds = None
SpeedKmph(t0, kind) == speed

\* TravelTimeModel.distance, in metres
Distance(a, b) ==
  LET dr == Abs(a[1] - b[1])
      dc == Abs(a[2] - b[2])
      steps_diag == Min2(dr, dc)
      steps_straight == Abs(dr - dc)
  IN  steps_diag * diag_m + steps_straight * cell_m

\* TravelTimeModel.travel_time, in whole seconds
TravelTime(start_rc, end_rc, t0, kind) ==
  (Distance(start_rc, end_rc) * 3600) \div (Max2(1, SpeedKmph(t0, kind)) * 1000)

Sign(x) == IF x = 0 THEN 0 ELSE IF x > 0 THEN 1 ELSE 0 - 1

RECURSIVE RouteFrom(_, _, _)
RouteFrom(rc, end_rc, path) ==
  IF rc = end_rc THEN path
  ELSE LET nxt == <<rc[1] + Sign(end_rc[1] - rc[1]), rc[2] + Sign(end_rc[2] - rc[2])>>
       IN  RouteFrom(nxt, end_rc, Append(path, nxt))

\* TravelTimeModel.route: greedy 8-neighbour path, start included
Route(start_rc, end_rc) == RouteFrom(start_rc, end_rc, <<start_rc>>)

\* ------------------------------------------------------------ Event queue

\* Event.__lt__
EventLt(a, b) == a.time < b.time

RECURSIVE SiftDown(_, _, _, _)
\* heapq._siftdown(heap, startpos, pos), positions 0-based
SiftDown(h, startpos, pos, newitem) ==
  IF pos > startpos
  THEN LET parentpos == (pos - 1) \div 2
           parent == h[parentpos + 1]
       IN  IF EventLt(newitem, parent)
           THEN SiftDown([h EXCEPT ![pos + 1] = parent], startpos, parentpos, newitem)
           ELSE [h EXCEPT ![pos + 1] = newitem]
  ELSE [h EXCEPT ![pos + 1] = newitem]

RECURSIVE SiftUp(_, _, _, _)
\* heapq._siftup(heap, pos), positions 0-based
SiftUp(h, startpos, pos, newitem) ==
  LET endpos == Len(h)
      childpos == 2 * pos + 1
      rightpos == childpos + 1
  IN  IF childpos < endpos
      THEN LET c == IF rightpos < endpos /\ ~EventLt(h[childpos + 1], h[rightpos + 1])
                    THEN rightpos ELSE childpos
           IN  SiftUp([h EXCEPT ![pos + 1] = h[c + 1]], startpos, c, newitem)
      ELSE SiftDown([h EXCEPT ![pos + 1] = newitem], startpos, pos, newitem)

\* heapq.heappush(heap, item)
HeapPush(h, item) == SiftDown(Append(h, item), 0, Len(h), item)

\* heapq.heappop(heap): the item returned
HeapPopItem(h) == h[1]

\* heapq.heappop(heap): the heap left
HeapPopRest(h) ==
  LET lastelt == h[Len(h)]
      rest == SubSeq(h, 1, Len(h) - 1)
  IN  IF rest = <<>> THEN rest ELSE SiftUp(rest, 0, 0, lastelt)

\* ------------------------------------------------------------ construction

RECURSIVE Repeat(_, _)
Repeat(x, n) == IF n <= 0 THEN <<>> ELSE <<x>> \o Repeat(x, n - 1)

RECURSIVE VehicleList(_, _)
\* build_vehicles_from_allocation's loops: per station, counts["A"] ambulances then
\* counts["R"] rapid-response cars; the position in the list is vehicle_id + 1
VehicleList(allocation, sid) ==
  IF sid \notin DOMAIN allocation THEN <<>>
  ELSE Repeat([kind |-> "A", home_station_id |-> sid], allocation[sid].A)
       \o Repeat([kind |-> "R", home_station_id |-> sid], allocation[sid].R)
       \o VehicleList(allocation, sid + 1)

\* build_vehicles_from_allocation followed by Simulation.__init__'s loc book-keeping
build_vehicles_from_allocation(allocation) ==
  LET l == VehicleList(allocation, 0)
  IN  [vid \in 0..(Len(l) - 1) |->
        [vehicle_id |-> vid, kind |-> l[vid + 1].kind,
         home_station_id |-> l[vid + 1].home_station_id,
         busy |-> FALSE, route |-> <<>>,
         loc |-> stations[l[vid + 1].home_station_id],
         assigned_call |-> NoCall]]

\* the Call list: sorted by t_call, call_id = position
MakeCalls(times, profiles) ==
  [i \in 1..NumCalls |->
     [call_id |-> i, t_call |-> times[i],
      dispatch_delay |-> profiles[i].dispatch_delay, scene_time |-> profiles[i].scene_time,
      hospital_time |-> profiles[i].hospital_time, handover_time |-> profiles[i].handover_time,
      need_ambulances |-> profiles[i].need_ambulances, need_rrc |-> profiles[i].need_rrc,
      category |-> profiles[i].category,
      loc_scene |-> profiles[i].loc_scene, loc_hospital |-> profiles[i].loc_hospital]]

\* ------------------------------------------------------------ dispatch

\* vehicle ids in dict order
RECURSIVE VidsFrom(_, _)
VidsFrom(vs, vid) == IF vid \notin DOMAIN vs THEN <<>> ELSE <<vid>> \o VidsFrom(vs, vid + 1)

Eta(vs, vid, call, tnow) == TravelTime(vs[vid].loc, call.loc_scene, tnow, vs[vid].kind)

RECURSIVE InsertByEta_BeforeEqual(_, _, _, _, _)
\* mutant of InsertByEta: vid is placed before the elements of equal key
InsertByEta_BeforeEqual(sorted, vid, vs, call, tnow) ==
  IF sorted = <<>> THEN <<vid>>
  ELSE IF Eta(vs, vid, call, tnow) <= Eta(vs, Head(sorted), call, tnow)
       THEN <<vid>> \o sorted
       ELSE <<Head(sorted)>> \o InsertByEta_BeforeEqual(Tail(sorted), vid, vs, call, tnow)

RECURSIVE InsertByEta(_, _, _, _, _)
\* place vid after every element whose key is <= its own (list.sort is stable)
InsertByEta(sorted, vid, vs, call, tnow) ==
  IF sorted = <<>> THEN <<vid>>
  ELSE IF Eta(vs, vid, call, tnow) < Eta(vs, Head(sorted), call, tnow)
       THEN <<vid>> \o sorted
       ELSE <<Head(sorted)>> \o InsertByEta(Tail(sorted), vid, vs, call, tnow)

RECURSIVE SortByEta(_, _, _, _, _)
SortByEta(l, acc, vs, call, tnow) ==
  IF l = <<>> THEN acc
  ELSE SortByEta(Tail(l), InsertByEta(acc, Head(l), vs, call, tnow), vs, call, tnow)

\* _dispatch line 287-289: the idle vehicles sorted by ETA to the scene
IdleSorted(vs, call, tnow) ==
  SortByEta(SelectSeq(VidsFrom(vs, 0), LAMBDA vid : ~vs[vid].busy), <<>>, vs, call, tnow)

RECURSIVE DispatchLoop(_, _, _, _, _)
\* _dispatch line 292-298: the greedy loop
DispatchLoop(idle, vs, needA, needR, assigned) ==
  IF idle = <<>> THEN assigned
  ELSE LET v == vs[Head(idle)]
           takeA == v.kind = "A" /\ needA > 0
           takeR == ~takeA /\ v.kind = "R" /\ needR > 0
           nA == IF takeA THEN needA - 1 ELSE needA
           nR == IF takeR THEN needR - 1 ELSE needR
           asg == IF takeA \/ takeR THEN Append(assigned, v.vehicle_id) ELSE assigned
       IN  IF nA = 0 /\ nR = 0 THEN asg
           ELSE DispatchLoop(Tail(idle), vs, nA, nR, asg)

\* Simulation._dispatch
Dispatch(vs, call, tnow) ==
  DispatchLoop(IdleSorted(vs, call, tnow), vs, call.need_ambulances, call.need_rrc, <<>>)

\* number of idle vehicles of a kind
IdleCount(vs, kind) == Cardinality({vid \in DOMAIN vs : ~vs[vid].busy /\ vs[vid].kind = kind})

\* ------------------------------------------------------------ helpers of the handlers
\* A handler works on the record S of the simulation's mutable fields (and the
\* history fields), at the clock value tnow of the event being handled.

\* heapq.heappush(self.event_q, Event(time, etype, payload))
PushEvent(S, time, etype, cid, vid) ==
  LET ev == [time |-> time, etype |-> etype, call |-> cid, vid |-> vid, seq |-> S.nseq]
  IN  [S EXCEPT !.event_q = HeapPush(@, ev), !.nseq = @ + 1, !.pushed = Append(@, ev)]

\* Simulation._begin_travel_to
BeginTravelTo(S, tnow, vid, dest, t_depart) ==
  LET S1 == [S EXCEPT !.vehicles[vid].route = Route(S.vehicles[vid].loc, dest)]
  IN  PushEvent(S1, Max2(tnow, t_depart) + loc_update_period, "LOC_UPDATE", NoCall, vid)

RECURSIVE FlagBusy(_, _, _)
\* Simulation._flag_busy
FlagBusy(vs, vids, call_id) ==
  IF vids = <<>> THEN vs
  ELSE FlagBusy([vs EXCEPT ![Head(vids)].busy = TRUE, ![Head(vids)].assigned_call = call_id],
                Tail(vids), call_id)

\* mutant of VehicleBecomeAvailable: assigned_call is not cleared
VehicleBecomeAvailable_KeepsCall(vs, vid) == [vs EXCEPT ![vid].busy = FALSE]

\* Simulation._vehicle_become_available
VehicleBecomeAvailable(vs, vid) ==
  [vs EXCEPT ![vid].busy = FALSE, ![vid].assigned_call = NoCall]

\* mutant of FirstVehicle: the last vehicle of the assignment is taken as the first to arrive
FirstVehicle_Last(assigned, vs, call, tnow) == assigned[Len(assigned)]

RECURSIVE FirstMinEta(_, _, _, _, _)
\* min(assigned, key=travel_time to the scene): the first vehicle of least key
FirstMinEta(l, best, vs, call, tnow) ==
  IF l = <<>> THEN best
  ELSE FirstMinEta(Tail(l),
                   IF Eta(vs, Head(l), call, tnow) < Eta(vs, best, call, tnow)
                   THEN Head(l) ELSE best,
                   vs, call, tnow)

FirstVehicle(assigned, vs, call, tnow) == FirstMinEta(Tail(assigned), Head(assigned), vs, call, tnow)

\* t_arrive_first = self.now + call.dispatch_delay + first_eta
ArriveFirst(assigned, vs, call, tnow) ==
  tnow + call.dispatch_delay + Eta(vs, FirstVehicle(assigned, vs, call, tnow), call, tnow)

\* mutant of ResponseTime: measured from the dispatch instant, not from t_call
ResponseTime_FromDispatch(assigned, vs, call, tnow) ==
  (tnow + call.dispatch_delay + Eta(vs, Head(assigned), call, tnow)) - tnow

\* the recorded value: t_arrive_first - call.t_call
ResponseTime(assigned, vs, call, tnow) == ArriveFirst(assigned, vs, call, tnow) - call.t_call

RECURSIVE TravelAllToScene(_, _, _, _)
\* for vid in assigned: self._begin_travel_to(vid, call.loc_scene, self.now + call.dispatch_delay)
TravelAllToScene(S, tnow, vids, call) ==
  IF vids = <<>> THEN S
  ELSE TravelAllToScene(BeginTravelTo(S, tnow, Head(vids), call.loc_scene, tnow + call.dispatch_delay),
                        tnow, Tail(vids), call)

\* The branch "if assigned:" of _on_call_arrive (record = record_stats) and of
\* _check_queue (record = TRUE: line 335 records unconditionally)
StartService(S, tnow, call, assigned, record, via) ==
  LET cid == call.call_id
      S1 == [S EXCEPT !.vehicles = FlagBusy(@, assigned, cid),
                      !.call_assignments = (cid :> assigned) @@ @,
                      !.holding = (cid :> {assigned[i] : i \in DOMAIN assigned}) @@ @,
                      !.disp = (cid :> [at |-> tnow, via |-> via,
                                        locs |-> [i \in DOMAIN assigned |-> S.vehicles[assigned[i]].loc]]) @@ @]
      t_arrive_first == ArriveFirst(assigned, S1.vehicles, call, tnow)
      S2 == IF record
            THEN [S1 EXCEPT !.response_times =
                      (cid :> ResponseTime(assigned, S1.vehicles, call, tnow)) @@ @]
            ELSE S1
      S3 == PushEvent(S2, t_arrive_first + call.scene_time, "SCENE_DEPART", cid, NoVid)
  IN  TravelAllToScene(S3, tnow, assigned, call)

\* history: one _dispatch call and what it returned
NoteAttempt(S, call, assigned, via) ==
  [S EXCEPT !.attempts = Append(@, [call |-> call.call_id, via |-> via,
                                    idleA |-> IdleCount(S.vehicles, "A"),
                                    idleR |-> IdleCount(S.vehicles, "R"),
                                    idle |-> {vid \in DOMAIN S.vehicles : ~S.vehicles[vid].busy},
                                    assigned |-> assigned])]

RECURSIVE CheckQueueLoop_Prepend(_, _, _, _)
\* mutant of CheckQueueLoop: a call that stays is put at the head of still_waiting
CheckQueueLoop_Prepend(S, tnow, q, still_waiting) ==
  IF q = <<>> THEN [S EXCEPT !.wait_q = still_waiting]
  ELSE LET c == CallOf(Head(q))
           assigned == Dispatch(S.vehicles, c, tnow)
           S1 == NoteAttempt(S, c, assigned, "queue")
       IN  IF assigned # <<>>
           THEN CheckQueueLoop_Prepend(StartService(S1, tnow, c, assigned, TRUE, "queue"),
                                       tnow, Tail(q), still_waiting)
           ELSE CheckQueueLoop_Prepend(S1, tnow, Tail(q), <<Head(q)>> \o still_waiting)

RECURSIVE CheckQueueLoop(_, _, _, _)
\* _check_queue line 320-341: one pass over self.wait_q
CheckQueueLoop(S, tnow, q, still_waiting) ==
  IF q = <<>> THEN [S EXCEPT !.wait_q = still_waiting]
  ELSE LET c == CallOf(Head(q))
           assigned == Dispatch(S.vehicles, c, tnow)
           S1 == NoteAttempt(S, c, assigned, "queue")
       IN  IF assigned # <<>>
           THEN CheckQueueLoop(StartService(S1, tnow, c, assigned, TRUE, "queue"),
                               tnow, Tail(q), still_waiting)
           ELSE CheckQueueLoop(S1, tnow, Tail(q), Append(still_waiting, Head(q)))

\* Simulation._check_queue
CheckQueue(S, tnow) ==
  IF S.wait_q = <<>> THEN S ELSE CheckQueueLoop(S, tnow, S.wait_q, <<>>)

\* ------------------------------------------------------------ event handlers

\* mutant of OnCallArrive: a call that gets no vehicle is dropped, not queued
OnCallArrive_NoQueue(S, tnow, call, record_stats) ==
  LET assigned == Dispatch(S.vehicles, call, tnow)
      S1 == NoteAttempt(S, call, assigned, "arrive")
  IN  IF assigned # <<>>
      THEN StartService(S1, tnow, call, assigned, record_stats, "arrive")
      ELSE S1

\* mutant of OnCallArrive: the call joins wait_q whether or not it got vehicles
OnCallArrive_AlsoQueue(S, tnow, call, record_stats) ==
  LET assigned == Dispatch(S.vehicles, call, tnow)
      S1 == NoteAttempt(S, call, assigned, "arrive")
      S2 == IF assigned # <<>>
            THEN StartService(S1, tnow, call, assigned, record_stats, "arrive")
            ELSE S1
  IN  [S2 EXCEPT !.wait_q = Append(@, call.call_id)]

\* Simulation._on_call_arrive
OnCallArrive(S, tnow, call, record_stats) ==
  LET assigned == Dispatch(S.vehicles, call, tnow)
      S1 == NoteAttempt(S, call, assigned, "arrive")
  IN  IF assigned # <<>>
      THEN StartService(S1, tnow, call, assigned, record_stats, "arrive")
      ELSE [S1 EXCEPT !.wait_q = Append(@, call.call_id)]

RECURSIVE FirstAmbulance(_, _)
\* _on_scene_depart line 224-227: the first kind-"A" vehicle in assignment order
FirstAmbulance(vs, assigned) ==
  IF assigned = <<>> THEN NoVid
  ELSE IF vs[Head(assigned)].kind = "A" THEN Head(assigned)
       ELSE FirstAmbulance(vs, Tail(assigned))

\* _on_scene_depart line 221-227: transport_vid (NoVid for None)
TransportVid(vs, call, assigned) ==
  IF call.hospital_time > 0 /\ (\E i \in DOMAIN assigned : vs[assigned[i]].kind = "A")
  THEN FirstAmbulance(vs, assigned)
  ELSE NoVid

\* mutant of JobCompleteTime: a duration, the clock is not added
JobCompleteTime_Relative(S, tnow, call, transport_vid) ==
  TravelTime(S.vehicles[transport_vid].loc, call.loc_hospital, tnow, "A")
    + call.hospital_time + call.handover_time

\* _on_scene_depart line 236: job_complete_time
JobCompleteTime(S, tnow, call, transport_vid) ==
  tnow + TravelTime(S.vehicles[transport_vid].loc, call.loc_hospital, tnow, "A")
       + call.hospital_time + call.handover_time

\* _vehicle_become_available(vid) followed by _begin_travel_to(vid, home station, now)
ReleaseToBase(S, tnow, cid, vid) ==
  LET S1 == [S EXCEPT !.vehicles = VehicleBecomeAvailable(@, vid),
                      !.freed = @ \cup {vid},
                      !.holding = [c \in DOMAIN @ |-> IF c = cid THEN @[c] \ {vid} ELSE @[c]]]
  IN  BeginTravelTo(S1, tnow, vid, S1.stations[S1.vehicles[vid].home_station_id], tnow)

RECURSIVE ReleaseOthers_All(_, _, _, _, _)
\* mutant of ReleaseOthers: the transporter is released with the others
ReleaseOthers_All(S, tnow, cid, vids, transport_vid) ==
  IF vids = <<>> THEN S
  ELSE ReleaseOthers_All(ReleaseToBase(S, tnow, cid, Head(vids)),
                         tnow, cid, Tail(vids), transport_vid)

RECURSIVE ReleaseOthers(_, _, _, _, _)
\* _on_scene_depart line 240-243
ReleaseOthers(S, tnow, cid, vids, transport_vid) ==
  IF vids = <<>> THEN S
  ELSE ReleaseOthers(IF Head(vids) # transport_vid
                     THEN ReleaseToBase(S, tnow, cid, Head(vids)) ELSE S,
                     tnow, cid, Tail(vids), transport_vid)

\* Simulation._on_scene_depart
OnSceneDepart(S, tnow, call) ==
  LET cid == call.call_id
      assigned == IF cid \in DOMAIN S.call_assignments THEN S.call_assignments[cid] ELSE <<>>
      transport_vid == TransportVid(S.vehicles, call, assigned)
      S1 == IF transport_vid # NoVid
            THEN LET Sa == BeginTravelTo(S, tnow, transport_vid, call.loc_hospital, tnow)
                 IN  PushEvent(Sa, JobCompleteTime(Sa, tnow, call, transport_vid),
                               "JOB_COMPLETE", cid, transport_vid)
            ELSE S
      S2 == ReleaseOthers(S1, tnow, cid, assigned, transport_vid)
  IN  IF assigned = <<>> THEN S ELSE CheckQueue(S2, tnow)

\* mutant of OnJobComplete: the transporter is not made available
OnJobComplete_NoRelease(S, tnow, cid, transport_vid) == CheckQueue(S, tnow)

\* Simulation._on_job_complete
OnJobComplete(S, tnow, cid, transport_vid) ==
  CheckQueue(ReleaseToBase(S, tnow, cid, transport_vid), tnow)

\* mutant of OnLocUpdate: the waypoint is popped but loc is not moved to the next one
OnLocUpdate_KeepsLoc(S, tnow, vid) ==
  LET v == S.vehicles[vid]
      route1 == IF v.route # <<>> THEN Tail(v.route) ELSE v.route
      S1 == [S EXCEPT !.vehicles[vid].route = route1]
  IN  IF route1 # <<>>
      THEN PushEvent(S1, tnow + loc_update_period, "LOC_UPDATE", NoCall, vid)
      ELSE S1

\* Simulation._on_loc_update
OnLocUpdate(S, tnow, vid) ==
  LET v == S.vehicles[vid]
      route1 == IF v.route # <<>> THEN Tail(v.route) ELSE v.route
      loc1 == IF v.route # <<>> /\ route1 # <<>> THEN route1[1] ELSE v.loc
      S1 == [S EXCEPT !.vehicles[vid].route = route1, !.vehicles[vid].loc = loc1]
  IN  IF route1 # <<>>
      THEN PushEvent(S1, tnow + loc_update_period, "LOC_UPDATE", NoCall, vid)
      ELSE S1

\* ------------------------------------------------------------ KPIs
\* A survival value is a whole number of 1/Unit; eta_s is in the same unit.

Unit == 10000

RECURSIVE PowInvE(_)
\* exp(-n) for a natural n, in 1/Unit (exp(-1) = 0.3679)
PowInvE(n) == IF n <= 0 THEN Unit ELSE (PowInvE(n - 1) * 3679) \div Unit

RECURSIVE ExpSeries(_, _, _, _)
\* the series 1 - f + f^2/2 - f^3/6 ... of exp(-f), f in 1/Unit, from term k on
ExpSeries(f, term, k, sgn) ==
  IF term = 0 \/ k > 12 THEN 0
  ELSE sgn * term + ExpSeries(f, (term * f) \div (Unit * k), k + 1, 0 - sgn)

\* math.exp(-(xn / 60000)) for xn >= 0, in 1/Unit
ExpNeg(xn) ==
  (PowInvE(xn \div 60000) * ExpSeries(((xn % 60000) * Unit) \div 60000, Unit, 1, 1)) \div Unit

\* survival_cardic_arrest: 1 / (1 + exp(-0.26 + 0.139 * Tr)), Tr = rt / 60 minutes;
\* the exponent is (139 * rt - 15600) / 60000
survival_cardic_arrest(rt) ==
  LET xn == 139 * rt - 15600
      y == ExpNeg(Abs(xn))
  IN  IF xn >= 0 THEN (y * Unit) \div (Unit + y) ELSE (Unit * Unit) \div (Unit + y)

\* survival_catA: 1 for rt <= 8 minutes, else 0
survival_catA(rt) == IF rt <= 8 * 60 THEN Unit ELSE 0

\* mutant of Tracked: every category is counted with catA
Tracked_AnyCategory(category) == IF category = "cardiac" THEN "cardiac" ELSE "catA"

\* _kpis line 357-362: the branch a category takes ("none": neither)
Tracked(category) == IF category \in {"cardiac", "catA"} THEN category ELSE "none"

RECURSIVE KpiLoop(_, _, _, _)
\* _kpis line 351-362: the loop over self.calls from index i on
KpiLoop(cs, rts, i, acc) ==
  IF i > Len(cs) THEN acc
  ELSE LET c == cs[i]
           rt == rts[c.call_id]
       IN  IF c.call_id \notin DOMAIN rts THEN KpiLoop(cs, rts, i + 1, acc)
           ELSE IF Tracked(c.category) = "cardiac"
                THEN KpiLoop(cs, rts, i + 1,
                             [acc EXCEPT !.gamma = @ + 1, !.sum_sc = @ + survival_cardic_arrest(rt)])
           ELSE IF Tracked(c.category) = "catA"
                THEN KpiLoop(cs, rts, i + 1,
                             [acc EXCEPT !.delta = @ + 1, !.sum_sa = @ + survival_catA(rt)])
           ELSE KpiLoop(cs, rts, i + 1, acc)

\* mutant of Kpis: the denominator counts the calls without the weight 2
Kpis_CountDen(cs, rts) ==
  LET acc == KpiLoop(cs, rts, 1, [gamma |-> 0, delta |-> 0, sum_sc |-> 0, sum_sa |-> 0])
      num == 2 * acc.sum_sc + acc.sum_sa
      den == IF acc.gamma + acc.delta > 0 THEN acc.gamma + acc.delta ELSE 1
  IN  [eta_s |-> num \div den, cardiac_calls |-> acc.gamma, catA_calls |-> acc.delta]

\* Simulation._kpis
Kpis(cs, rts) ==
  LET acc == KpiLoop(cs, rts, 1, [gamma |-> 0, delta |-> 0, sum_sc |-> 0, sum_sa |-> 0])
      num == 2 * acc.sum_sc + acc.sum_sa
      den == IF 2 * acc.gamma + acc.delta > 0 THEN 2 * acc.gamma + acc.delta ELSE 1
  IN  [eta_s |-> num \div den, cardiac_calls |-> acc.gamma, catA_calls |-> acc.delta]

\* run has not returned
NoKpi == <<>>

\* ------------------------------------------------------------ run() and _loop()

warm_lo == t_start - warmup

RECURSIVE PushCalls_NoLowerBound(_, _, _, _)
\* mutant of PushCalls: the lower end of the window is not tested
PushCalls_NoLowerBound(S, i, lo, hi) ==
  IF i > Len(calls) THEN S
  ELSE PushCalls_NoLowerBound(IF calls[i].t_call < hi
                              THEN PushEvent(S, calls[i].t_call, "CALL_ARRIVE", i, NoVid) ELSE S,
                              i + 1, lo, hi)

RECURSIVE PushCalls(_, _, _, _)
\* run line 147-149 and 154-156: push CALL_ARRIVE for every call with lo <= t_call < hi
PushCalls(S, i, lo, hi) ==
  IF i > Len(calls) THEN S
  ELSE PushCalls(IF lo <= calls[i].t_call /\ calls[i].t_call < hi
                 THEN PushEvent(S, calls[i].t_call, "CALL_ARRIVE", i, NoVid) ELSE S,
                 i + 1, lo, hi)

\* the simulation's fields as a record, with the history of the step emptied
Cur(q) ==
  [stations |-> sim_stations, vehicles |-> vehicles, event_q |-> q, wait_q |-> wait_q,
   response_times |-> response_times, call_assignments |-> call_assignments,
   nseq |-> nseq, pushed |-> <<>>, attempts |-> <<>>, freed |-> {},
   disp |-> disp, holding |-> holding]

Store(S) ==
  /\ vehicles' = S.vehicles
  /\ event_q' = S.event_q
  /\ wait_q' = S.wait_q
  /\ response_times' = S.response_times
  /\ call_assignments' = S.call_assignments
  /\ nseq' = S.nseq
  /\ pushed' = S.pushed
  /\ attempts' = S.attempts
  /\ freed' = S.freed
  /\ disp' = S.disp
  /\ holding' = S.holding

\* _loop's "until" in the phase the run is in
Until == IF pc = "warmup" THEN t_start ELSE t_end

\* _loop line 164: while self.event_q and self.event_q[0].time < until
LoopCond == pc \in {"warmup", "study"} /\ event_q # <<>> /\ event_q[1].time < Until

\* _loop called with record_stats = False for the warm-up, True for the study window
RecordStats == pc = "study"

\* history: the popped event was pushed before every pending event of the same time
PopIsFifo == \A i \in DOMAIN event_q :
                event_q[i].time = event_q[1].time => event_q[1].seq <= event_q[i].seq

\* _loop line 165-167: ev = heappop(event_q); self.now = ev.time; et = ev.etype
Pop(etype) ==
  /\ LoopCond
  /\ HeapPopItem(event_q).etype = etype
  /\ now' = HeapPopItem(event_q).time
  /\ handled' = HeapPopItem(event_q)
  /\ popFifo' = PopIsFifo
  /\ UNCHANGED <<calls, speed, pc, kpi, sim_stations, warmup, gaVars>>

\* run line 146-149: the warm-up calls are pushed, then _loop(until=t_start) starts
RunStart ==
  /\ pc = "init"
  /\ pc' = "warmup"
  /\ Store(PushCalls(Cur(event_q), 1, warm_lo, t_start))
  /\ handled' = NoEvent
  /\ popFifo' = TRUE
  /\ UNCHANGED <<calls, speed, now, kpi, sim_stations, warmup, gaVars>>

CallArrive ==
  /\ Pop("CALL_ARRIVE")
  /\ Store(OnCallArrive(Cur(HeapPopRest(event_q)), HeapPopItem(event_q).time,
                        CallOf(HeapPopItem(event_q).call), RecordStats))

SceneDepart ==
  /\ Pop("SCENE_DEPART")
  /\ Store(OnSceneDepart(Cur(HeapPopRest(event_q)), HeapPopItem(event_q).time,
                         CallOf(HeapPopItem(event_q).call)))

JobComplete ==
  /\ Pop("JOB_COMPLETE")
  /\ Store(OnJobComplete(Cur(HeapPopRest(event_q)), HeapPopItem(event_q).time,
                         HeapPopItem(event_q).call, HeapPopItem(event_q).vid))

LocUpdate ==
  /\ Pop("LOC_UPDATE")
  /\ Store(OnLocUpdate(Cur(HeapPopRest(event_q)), HeapPopItem(event_q).time,
                       HeapPopItem(event_q).vid))

\* _loop line 182 at the end of the warm-up (self.now = until), then run line 154-158:
\* the study-window calls are pushed and _loop(until=t_end) starts
EndWarmup ==
  /\ pc = "warmup"
  /\ ~LoopCond
  /\ pc' = "study"
  /\ now' = t_start
  /\ Store(PushCalls(Cur(event_q), 1, t_start, t_end))
  /\ handled' = NoEvent
  /\ popFifo' = TRUE
  /\ UNCHANGED <<calls, speed, kpi, sim_stations, warmup, gaVars>>

\* _loop line 182 at the end of the study window: self.now = until; run returns
\* self._kpis()
EndStudy ==
  /\ pc = "study"
  /\ ~LoopCond
  /\ pc' = "done"
  /\ now' = t_end
  /\ Store(Cur(event_q))
  /\ kpi' = Kpis(calls, response_times)
  /\ handled' = NoEvent
  /\ popFifo' = TRUE
  /\ UNCHANGED <<calls, speed, sim_stations, warmup, gaVars>>

SortedTimes == {t \in [1..NumCalls -> CallTimes] : \A i, j \in 1..NumCalls : i < j => t[i] <= t[j]}

\* run line 148 and 155 push only the calls with warm_lo <= t_call < t_end; the
\* other fields of a call outside that window are never read, and one profile is
\* drawn for it
OutsideProfile == CHOOSE p \in CallProfiles : p.need_ambulances = 1 /\ p.need_rrc = 0

CallInputs ==
  {<<t, p>> \in SortedTimes \X [1..NumCalls -> CallProfiles] :
     \A i \in 1..NumCalls : (t[i] < warm_lo \/ t[i] >= t_end) => p[i] = OutsideProfile}

\* the state after Simulation.__init__
\* GAOptimizer.run has not been called
NoRun ==
  /\ ga_cfg = <<>>
  /\ run = <<>>
  /\ heap = <<>>
  /\ ghist = <<>>

\* a Simulation that is run on its own: there is no optimizer
NoOptimizer ==
  /\ opt = <<>>
  /\ stations_fixed = <<>>
  /\ chrom = <<>>
  /\ outs = <<>>
  /\ evals = <<>>
  /\ NoRun

Init ==
  /\ NoOptimizer
  /\ sim_stations = stations
  /\ warmup = warmup_buffer
  /\ calls \in {MakeCalls(x[1], x[2]) : x \in CallInputs}
  /\ speed \in Speeds
  /\ vehicles \in {build_vehicles_from_allocation(a) : a \in Allocations}
  /\ event_q = <<>>
  /\ wait_q = <<>>
  /\ now = 0
  /\ response_times = <<>>
  /\ call_assignments = <<>>
  /\ pc = "init"
  /\ nseq = 0
  /\ handled = NoEvent
  /\ popFifo = TRUE
  /\ pushed = <<>>
  /\ attempts = <<>>
  /\ freed = {}
  /\ disp = <<>>
  /\ holding = <<>>
  /\ kpi = NoKpi

Next ==
  \/ RunStart
  \/ CallArrive
  \/ SceneDepart
  \/ JobComplete
  \/ LocUpdate
  \/ EndWarmup
  \/ EndStudy

Spec == Init /\ [][Next]_vars

\* ------------------------------------------------------------ properties

Range(q) == {q[i] : i \in DOMAIN q}
CountKind(vids, kind) == Cardinality({i \in DOMAIN vids : vehicles[vids[i]].kind = kind})
\* the call cannot be fully served by the vehicles idle when _dispatch was called
Insufficient(a) ==
  a.idleA < calls[a.call].need_ambulances \/ a.idleR < calls[a.call].need_rrc
\* nothing of the call was committed: it waits, and no vehicle or assignment names it
Untouched(cid) ==
  /\ cid \in Range(wait_q)
  /\ cid \notin DOMAIN call_assignments
  /\ \A vid \in DOMAIN vehicles : vehicles[vid].assigned_call # cid

C2_WarmupNeverRecorded ==
  \A cid \in DOMAIN response_times : calls[cid].t_call >= t_start

\* least element of a non-empty set of numbers
MinOf(S) == CHOOSE x \in S : \A y \in S : x <= y
\* travel times to the scene of the vehicles assigned to call cid, from where they
\* were at the dispatch instant
EtasAtDispatch(cid) ==
  {TravelTime(disp[cid].locs[i], calls[cid].loc_scene, disp[cid].at,
              vehicles[call_assignments[cid][i]].kind) : i \in DOMAIN disp[cid].locs}

\* C3: every recorded response time is (dispatch instant + dispatch_delay + least
\* travel time among the assigned vehicles) - t_call and is non-negative; a call
\* dispatched on arrival with dispatch_delay 30 and least travel time 240 has 270.
C3_ResponseTime ==
  \A cid \in DOMAIN response_times :
    LET c == calls[cid]
        eta == MinOf(EtasAtDispatch(cid))
    IN  /\ response_times[cid] = (disp[cid].at + c.dispatch_delay + eta) - c.t_call
        /\ response_times[cid] >= 0
        /\ (disp[cid].via = "arrive" /\ c.dispatch_delay = 30 /\ eta = 240)
             => response_times[cid] = 270

\* a call dispatched on arrival with dispatch_delay 30 and least travel time 240
C3_Witness ==
  \E cid \in DOMAIN response_times :
    /\ disp[cid].via = "arrive"
    /\ calls[cid].dispatch_delay = 30
    /\ MinOf(EtasAtDispatch(cid)) = 240
    /\ response_times[cid] = 270

\* C4: a wait-listed call is dispatched only by the _check_queue of a SCENE_DEPART
\* or JOB_COMPLETE handler that freed a vehicle (the vehicles it gets were freed by
\* that handler), and its recorded response time is at least
\* (dispatch instant - t_call) + dispatch_delay.
C4_QueuedDispatch ==
  \A i \in DOMAIN attempts :
    LET a == attempts[i]
        c == calls[a.call]
    IN  (a.via = "queue" /\ a.assigned # <<>>) =>
          /\ handled.etype \in {"SCENE_DEPART", "JOB_COMPLETE"}
          /\ freed # {}
          /\ Range(a.assigned) \subseteq freed
          /\ a.call \in DOMAIN response_times
          /\ response_times[a.call] >= (now - c.t_call) + c.dispatch_delay
          /\ now >= c.t_call

C4_Witness ==
  \E i \in DOMAIN attempts :
    /\ attempts[i].via = "queue"
    /\ attempts[i].assigned # <<>>
    /\ handled.etype = "JOB_COMPLETE"
    /\ response_times[attempts[i].call] > calls[attempts[i].call].dispatch_delay + 600

\* the calls that hold vehicle vid: assigned to them and not yet released
Holders(vid) == {cid \in DOMAIN holding : vid \in holding[cid]}

\* C5: a vehicle is busy iff assigned_call is set, and then it is listed in
\* call_assignments of exactly that one call among the calls that have not yet
\* released it; an idle vehicle is held by no call.
C5_BusyIffAssigned ==
  \A vid \in DOMAIN vehicles :
    LET v == vehicles[vid]
    IN  /\ v.busy <=> v.assigned_call # NoCall
        /\ v.busy =>
             /\ v.assigned_call \in DOMAIN call_assignments
             /\ vid \in Range(call_assignments[v.assigned_call])
             /\ Holders(vid) = {v.assigned_call}
        /\ ~v.busy => Holders(vid) = {}
        /\ \A cid \in DOMAIN holding : holding[cid] \subseteq Range(call_assignments[cid])

\* a busy vehicle serving its second call: an earlier call lists it and released it
C5_Witness ==
  \E vid \in DOMAIN vehicles : \E cid \in DOMAIN call_assignments :
    /\ vehicles[vid].busy
    /\ cid # vehicles[vid].assigned_call
    /\ vid \in Range(call_assignments[cid])
    /\ Holders(vid) = {vehicles[vid].assigned_call}

\* C6: the clock never decreases over the whole run and every event a step pushes
\* has a time >= the clock of that step.
C6_TimeOrder ==
  [][now' >= now /\ \A i \in DOMAIN pushed' : pushed'[i].time >= now']_vars

\* an event scheduled during the warm-up is handled in the measured phase and
\* pushes further events
C6_Witness ==
  /\ pc = "study"
  /\ handled.etype = "SCENE_DEPART"
  /\ disp[handled.call].at < t_start
  /\ pushed # <<>>

\* C7: among pending events of equal time the one pushed earlier is popped first.
C7_FifoTies == popFifo

OutOfWindow(cid) == calls[cid].t_call >= t_end \/ calls[cid].t_call < warm_lo

\* C8: no event with time >= t_end is handled (it stays in the queue when run
\* returns), and a call with t_call >= t_end or t_call < t_start - warmup_buffer is
\* never dispatched, wait-listed, assigned a vehicle or given a response time.
C8_Window ==
  /\ handled.etype # "NONE" => handled.time < t_end
  /\ (handled.etype # "NONE" /\ pc = "warmup") => handled.time < t_start
  /\ pc = "done" => \A i \in DOMAIN event_q : event_q[i].time >= t_end
  /\ \A cid \in DOMAIN calls :
       OutOfWindow(cid) =>
         /\ cid \notin Range(wait_q)
         /\ cid \notin DOMAIN call_assignments
         /\ cid \notin DOMAIN response_times
         /\ cid \notin DOMAIN disp
         /\ \A i \in DOMAIN attempts : attempts[i].call # cid
         /\ \A i \in DOMAIN event_q : event_q[i].call # cid
         /\ \A vid \in DOMAIN vehicles : vehicles[vid].assigned_call # cid

\* the run has returned leaving events in the queue, with a call before the
\* warm-up window, a call at or after t_end, and a call that was dispatched
C8_Witness ==
  /\ pc = "done"
  /\ event_q # <<>>
  /\ \E cid \in DOMAIN calls : calls[cid].t_call >= t_end
  /\ \E cid \in DOMAIN calls : calls[cid].t_call < warm_lo
  /\ call_assignments # <<>>

\* q is an order-preserving selection of the elements of r (no element repeats)
IsSubSeq(q, r) ==
  /\ Range(q) \subseteq Range(r)
  /\ \A i, j \in DOMAIN q : i < j =>
       \E k, l \in DOMAIN r : k < l /\ r[k] = q[i] /\ r[l] = q[j]
\* the calls retried by the _check_queue pass of the last step, in order
Retried(att) ==
  LET qa == SelectSeq(att, LAMBDA a : a.via = "queue")
  IN  [i \in DOMAIN qa |-> qa[i].call]
WaitSorted == \A i, j \in DOMAIN wait_q : i < j => calls[wait_q[i]].t_call <= calls[wait_q[j]].t_call

\* C9: a new call is appended at the tail of wait_q; a _check_queue pass retries
\* the waiting calls from head to tail and the calls that remain keep their
\* relative order; wait_q is ordered by the time the calls were queued.
C9_Fifo ==
  /\ []WaitSorted
  /\ [][/\ \/ IsSubSeq(wait_q', wait_q)
           \/ /\ handled'.etype = "CALL_ARRIVE"
              /\ wait_q' = Append(wait_q, handled'.call)
        /\ Retried(attempts') \in {<<>>, wait_q}
        /\ Retried(attempts') # <<>> =>
             wait_q' = SelectSeq(wait_q, LAMBDA cid :
                          \E i \in DOMAIN attempts' :
                             attempts'[i].call = cid /\ attempts'[i].assigned = <<>>)]_vars

\* a pass over two waiting calls dispatched the second and kept the first
C9_Witness ==
  /\ Len(Retried(attempts)) >= 2
  /\ \E i, j \in DOMAIN attempts :
       /\ i < j
       /\ attempts[i].via = "queue" /\ attempts[i].assigned = <<>>
       /\ attempts[j].via = "queue" /\ attempts[j].assigned # <<>>
  /\ wait_q # <<>>

JobCompletes == SelectSeq(pushed, LAMBDA e : e.etype = "JOB_COMPLETE")

\* C10: SCENE_DEPART of a call with hospital_time > 0 and an ambulance assigned
\* schedules exactly one JOB_COMPLETE, for the first kind-"A" vehicle in assignment
\* order, at scene-departure time + travel time scene -> hospital + hospital_time +
\* handover_time; otherwise it schedules no JOB_COMPLETE.
C10_Transport ==
  (handled.etype = "SCENE_DEPART" /\ handled.call \in DOMAIN call_assignments) =>
    LET c == calls[handled.call]
        assigned == call_assignments[handled.call]
        ambs == SelectSeq(assigned, LAMBDA vid : vehicles[vid].kind = "A")
    IN  IF c.hospital_time > 0 /\ ambs # <<>>
        THEN /\ Len(JobCompletes) = 1
             /\ JobCompletes[1].vid = ambs[1]
             /\ JobCompletes[1].call = handled.call
             /\ JobCompletes[1].time =
                  now + TravelTime(c.loc_scene, c.loc_hospital, now, "A")
                      + c.hospital_time + c.handover_time
        ELSE JobCompletes = <<>>

\* the step released vehicle vid: it went through _vehicle_become_available and
\* _begin_travel_to its home station, and is now idle on that route or was taken at
\* once by a call that was waiting
Released(vid) ==
  /\ vid \in freed'
  /\ \E i \in DOMAIN pushed' :
       /\ pushed'[i].etype = "LOC_UPDATE"
       /\ pushed'[i].vid = vid
       /\ pushed'[i].time = now' + loc_update_period
  /\ \/ /\ ~vehicles'[vid].busy
        /\ vehicles'[vid].assigned_call = NoCall
        /\ vehicles'[vid].route =
             Route(vehicles[vid].loc, sim_stations[vehicles[vid].home_station_id])
     \/ /\ vehicles'[vid].busy
        /\ vehicles'[vid].assigned_call \in Range(wait_q)
        /\ \E i \in DOMAIN attempts' :
             /\ attempts'[i].via = "queue"
             /\ attempts'[i].call = vehicles'[vid].assigned_call
             /\ vid \in Range(attempts'[i].assigned)
\* the step left vehicle vid with call cid: not released, not offered to a call
KeptBy(vid, cid) ==
  /\ vid \notin freed'
  /\ vehicles'[vid].busy
  /\ vehicles'[vid].assigned_call = cid
  /\ \A i \in DOMAIN attempts' : vid \notin Range(attempts'[i].assigned)
\* every pending JOB_COMPLETE names a vehicle that is busy with the event's call
TransporterHeld ==
  \A i \in DOMAIN event_q :
    event_q[i].etype = "JOB_COMPLETE" =>
      /\ vehicles[event_q[i].vid].busy
      /\ vehicles[event_q[i].vid].assigned_call = event_q[i].call

\* C11: when a call's SCENE_DEPART is handled every assigned vehicle other than the
\* transporter becomes available (idle, or taken at once by a waiting call) and is
\* routed to its home station, while the transporter stays busy with the call and
\* is assigned to no other call until its own JOB_COMPLETE is handled; then it
\* becomes available and the wait list is retried.
C11_ReleaseOrder ==
  /\ []TransporterHeld
  /\ [][/\ handled'.etype = "SCENE_DEPART" =>
             LET jc == SelectSeq(pushed', LAMBDA e : e.etype = "JOB_COMPLETE")
                 tv == IF jc = <<>> THEN NoVid ELSE jc[1].vid
                 assigned == call_assignments[handled'.call]
             IN  /\ Len(jc) <= 1
                 /\ \A vid \in Range(assigned) \ {tv} : Released(vid)
                 /\ tv # NoVid => tv \in Range(assigned) /\ KeptBy(tv, handled'.call)
        /\ handled'.etype = "JOB_COMPLETE" =>
             /\ Released(handled'.vid)
             /\ Retried(attempts') = wait_q
        /\ \A i \in DOMAIN event_q :
             (event_q[i].etype = "JOB_COMPLETE" /\ event_q[i] # handled') =>
                KeptBy(event_q[i].vid, event_q[i].call)]_vars

\* a SCENE_DEPART kept the transporter busy and released another vehicle of the
\* call, which a waiting call took at once
C11_Witness ==
  /\ handled.etype = "SCENE_DEPART"
  /\ \E i \in DOMAIN pushed : pushed[i].etype = "JOB_COMPLETE"
                              /\ vehicles[pushed[i].vid].assigned_call = handled.call
  /\ \E vid \in freed : /\ vid \in Range(call_assignments[handled.call])
                        /\ vehicles[vid].busy
                        /\ vehicles[vid].assigned_call # handled.call

\* travel time of vehicle vid to the scene of call cid at the clock of the step (a
\* step that calls _dispatch moves no vehicle, so loc is the one _dispatch saw)
EtaNow(vid, cid) == TravelTime(vehicles[vid].loc, calls[cid].loc_scene, now, vehicles[vid].kind)
\* vid comes before other in the order _dispatch takes vehicles of one class
TakenBefore(vid, other, cid) ==
  \/ EtaNow(vid, cid) < EtaNow(other, cid)
  \/ EtaNow(vid, cid) = EtaNow(other, cid) /\ vid < other

\* C12: the vehicles _dispatch assigns are idle, at most need_ambulances of kind
\* "A" and at most need_rrc of kind "R"; within a class no unassigned idle vehicle
\* has a strictly smaller travel time to the scene than an assigned one, and among
\* equal travel times the lower vehicle id is taken first.
C12_NearestFirst ==
  \A i \in DOMAIN attempts :
    LET a == attempts[i]
        c == calls[a.call]
    IN  /\ Range(a.assigned) \subseteq a.idle
        /\ \A j, k \in DOMAIN a.assigned : j # k => a.assigned[j] # a.assigned[k]
        /\ CountKind(a.assigned, "A") <= Max2(c.need_ambulances, 0)
        /\ CountKind(a.assigned, "R") <= Max2(c.need_rrc, 0)
        /\ \A vid \in Range(a.assigned) : \A other \in a.idle \ Range(a.assigned) :
             vehicles[vid].kind = vehicles[other].kind =>
               /\ EtaNow(other, a.call) >= EtaNow(vid, a.call)
               /\ TakenBefore(vid, other, a.call)
        /\ \A j, k \in DOMAIN a.assigned :
             (j < k /\ vehicles[a.assigned[j]].kind = vehicles[a.assigned[k]].kind) =>
               TakenBefore(a.assigned[j], a.assigned[k], a.call)

\* _dispatch took one of two idle vehicles of a class that were equally far from
\* the scene
C12_Witness ==
  \E i \in DOMAIN attempts :
    \E vid \in Range(attempts[i].assigned) :
      \E other \in attempts[i].idle \ Range(attempts[i].assigned) :
        /\ vehicles[vid].kind = vehicles[other].kind
        /\ EtaNow(vid, attempts[i].call) = EtaNow(other, attempts[i].call)
        /\ vid < other

\* _dispatch took the nearer of two idle vehicles of a class, the one with the
\* higher vehicle id
C12_WitnessNearer ==
  \E i \in DOMAIN attempts :
    \E vid \in Range(attempts[i].assigned) :
      \E other \in attempts[i].idle \ Range(attempts[i].assigned) :
        /\ vehicles[vid].kind = vehicles[other].kind
        /\ EtaNow(vid, attempts[i].call) < EtaNow(other, attempts[i].call)
        /\ vid > other

\* ============================================================ GAOptimizer (src/ga_opt.py)
\* A gene is a real number in [0,1]; the model takes the genes k / GeneDen and
\* writes a gene as its numerator k.  A Python dict whose key order matters is a
\* record [keys |-> sequence of keys in insertion order, val |-> key -> value].

\* genes are the multiples of 1 / GeneDen
GeneDen == 4
\* number of _decode calls made on one genotype
MaxDecodes == 2

Genes == 0..GeneDen

\* fleet_ratio_fixed = None
NoRatio == <<>>

EmptyDict == [keys |-> <<>>, val |-> <<>>]

\* d[k] = v on a dict: an existing key keeps its place, a new key goes last
DictSet(d, k, v) ==
  IF \E i \in DOMAIN d.keys : d.keys[i] = k
  THEN [d EXCEPT !.val = (k :> v) @@ @]
  ELSE [keys |-> Append(d.keys, k), val |-> (k :> v) @@ d.val]

\* int(round(num / den)): Python 3 rounds a half to the even neighbour
RoundHalfEven(num, den) ==
  LET q == num \div den
      r == num % den
  IN  IF 2 * r < den THEN q
      ELSE IF 2 * r > den THEN q + 1
      ELSE IF q % 2 = 0 THEN q ELSE q + 1

\* GAOptimizer.__init__ line 48-50: chrom_len
ChromLen(o) ==
  2 * Len(o.movable_station_ids) + (IF o.fleet_ratio_fixed = NoRatio THEN 1 ELSE 0)
    + o.total_vehicles

\* mutant of StationsFixedAfter: _decode writes into self.stations_fixed itself
StationsFixedAfter_Alias(sf, written) == written

\* _decode line 55: stations is a deep copy, so what _decode writes into stations
\* leaves self.stations_fixed as it was
StationsFixedAfter(sf, written) == sf

RECURSIVE DecodeStations(_, _, _, _, _)
\* _decode line 57-60; idx is the number of genes read so far; chrom[idx] past the
\* end raises IndexError (err)
DecodeStations(stn, movable, o, ch, idx) ==
  IF movable = <<>> THEN [err |-> FALSE, stations |-> stn, idx |-> idx]
  ELSE IF idx + 2 > Len(ch) THEN [err |-> TRUE, stations |-> stn, idx |-> idx]
  ELSE LET r == RoundHalfEven(ch[idx + 1] * (o.n_rows - 1), GeneDen)
           c == RoundHalfEven(ch[idx + 2] * (o.n_cols - 1), GeneDen)
       IN  DecodeStations(DictSet(stn, Head(movable), <<r, c>>), Tail(movable), o, ch, idx + 2)

\* _decode line 63-70: the fleet mix (nA, nR)
FleetMix(o, ch, idx) ==
  IF o.fleet_ratio_fixed = NoRatio
  THEN IF idx + 1 > Len(ch) THEN [err |-> TRUE, nA |-> 0, nR |-> 0, idx |-> idx]
       ELSE LET nA == Max2(0, Min2(o.total_vehicles,
                                   RoundHalfEven(ch[idx + 1] * o.total_vehicles, GeneDen)))
            IN  [err |-> FALSE, nA |-> nA, nR |-> o.total_vehicles - nA, idx |-> idx + 1]
  ELSE [err |-> FALSE, nA |-> o.fleet_ratio_fixed[1], nR |-> o.fleet_ratio_fixed[2], idx |-> idx]

\* mutant of SlotIndex: the gene is scaled by N, not N - 1
SlotIndex_ByN(gene, N) == RoundHalfEven(gene * N, GeneDen)

\* _decode line 79 and 82: s_idx
SlotIndex(gene, N) == RoundHalfEven(gene * (N - 1), GeneDen)

RECURSIVE DecodeSlots(_, _, _, _, _, _)
\* _decode line 78-80 (kind "A") and 81-83 (kind "R"): k slot genes, each adding
\* one vehicle of the kind at station_ids[s_idx]; a list index outside -N..N-1
\* raises IndexError
DecodeSlots(alloc, station_ids, ch, idx, k, kind) ==
  IF k <= 0 THEN [err |-> FALSE, alloc |-> alloc, idx |-> idx]
  ELSE IF idx + 1 > Len(ch) THEN [err |-> TRUE, alloc |-> alloc, idx |-> idx]
  ELSE LET N == Len(station_ids)
           s_idx == SlotIndex(ch[idx + 1], N)
       IN  IF s_idx >= N \/ s_idx < 0 - N THEN [err |-> TRUE, alloc |-> alloc, idx |-> idx]
           ELSE LET sid == station_ids[(s_idx % N) + 1]
                IN  DecodeSlots([alloc EXCEPT ![sid][kind] = @ + 1],
                                station_ids, ch, idx + 1, k - 1, kind)

\* GAOptimizer._decode: the returned (stations, alloc_counts), err for an exception,
\* and self.stations_fixed as the call leaves it
Decode(sf, o, ch) ==
  LET st == DecodeStations(sf, o.movable_station_ids, o, ch, 0)
      mix == FleetMix(o, ch, st.idx)
      station_ids == st.stations.keys
      zero == [sid \in {station_ids[i] : i \in DOMAIN station_ids} |-> [A |-> 0, R |-> 0]]
      sa == DecodeSlots(zero, station_ids, ch, mix.idx, mix.nA, "A")
      sr == DecodeSlots(sa.alloc, station_ids, ch, sa.idx, mix.nR, "R")
      err == st.err \/ mix.err \/ sa.err \/ sr.err
  IN  [err |-> err,
       stations |-> IF err THEN EmptyDict ELSE st.stations,
       alloc |-> IF err THEN <<>> ELSE sr.alloc,
       stations_fixed |-> StationsFixedAfter(sf, st.stations)]

RECURSIVE VehicleListIn(_, _)
\* build_vehicles_from_allocation's loops over allocation.items(), in dict order
VehicleListIn(keys, allocation) ==
  IF keys = <<>> THEN <<>>
  ELSE Repeat([kind |-> "A", home_station_id |-> Head(keys)], allocation[Head(keys)].A)
       \o Repeat([kind |-> "R", home_station_id |-> Head(keys)], allocation[Head(keys)].R)
       \o VehicleListIn(Tail(keys), allocation)

\* ------------------------------------------------------------ inputs of the optimizer

\* stations_fixed as the caller builds it: keys in order, out of order, and no station
StationDicts ==
  { [keys |-> <<0, 1>>, val |-> (0 :> <<10, 10>>) @@ (1 :> <<10, 12>>)],
    [keys |-> <<7, 5>>, val |-> (7 :> <<10, 10>>) @@ (5 :> <<9, 12>>)],
    EmptyDict }

\* N_grid, movable_station_ids, total_vehicles, fleet_ratio_fixed: with and without
\* a movable station and a ratio gene, and a fixed mix that is not total_vehicles
OptConfigs ==
  { [n_rows |-> 26, n_cols |-> 22, movable_station_ids |-> <<1>>,
     total_vehicles |-> 1, fleet_ratio_fixed |-> NoRatio],
    [n_rows |-> 26, n_cols |-> 22, movable_station_ids |-> <<>>,
     total_vehicles |-> 2, fleet_ratio_fixed |-> NoRatio],
    [n_rows |-> 3, n_cols |-> 1, movable_station_ids |-> <<5>>,
     total_vehicles |-> 2, fleet_ratio_fixed |-> <<1, 1>>],
    [n_rows |-> 26, n_cols |-> 22, movable_station_ids |-> <<>>,
     total_vehicles |-> 2, fleet_ratio_fixed |-> <<1, 0>>],
    [n_rows |-> 26, n_cols |-> 22, movable_station_ids |-> <<>>,
     total_vehicles |-> 2, fleet_ratio_fixed |-> <<2, 1>>] }

\* the genotypes of length chrom_len, one gene shorter and one gene longer
Genotypes(o) ==
  UNION {[1..n -> Genes] : n \in {k \in (ChromLen(o) - 1)..(ChromLen(o) + 1) : k >= 0}}

\* no Simulation has been constructed
NoSimulationYet ==
  /\ speed = 45
  /\ sim_stations = <<>>
  /\ warmup = 0
  /\ vehicles = <<>>
  /\ event_q = <<>>
  /\ wait_q = <<>>
  /\ now = 0
  /\ response_times = <<>>
  /\ call_assignments = <<>>
  /\ pc = "none"
  /\ nseq = 0
  /\ handled = NoEvent
  /\ popFifo = TRUE
  /\ pushed = <<>>
  /\ attempts = <<>>
  /\ freed = {}
  /\ disp = <<>>
  /\ holding = <<>>
  /\ kpi = NoKpi

\* no Simulation has been constructed and the optimizer has no calls
NoSimulation == NoSimulationYet /\ calls = <<>>

\* ------------------------------------------------------------ _decode on its own

\* a constructed GAOptimizer and a genotype
InitDecode ==
  /\ NoSimulation
  /\ opt \in OptConfigs
  /\ stations_fixed \in StationDicts
  /\ chrom \in Genotypes(opt)
  /\ outs = <<>>
  /\ evals = <<>>
  /\ NoRun

\* one call self._decode(chrom)
DecodeCall ==
  /\ Len(outs) < MaxDecodes
  /\ LET d == Decode(stations_fixed, opt, chrom)
     IN  /\ outs' = Append(outs, [err |-> d.err, stations |-> d.stations, alloc |-> d.alloc])
         /\ stations_fixed' = d.stations_fixed
  /\ UNCHANGED <<opt, chrom, evals, runVars, simVars>>

NextDecode == DecodeCall

SpecDecode == InitDecode /\ [][NextDecode]_vars

\* ------------------------------------------------------------ properties of _decode

RECURSIVE SumCounts(_, _)
\* ambulances plus rapid-response cars over the stations of an allocation
SumCounts(keys, allocation) ==
  IF keys = <<>> THEN 0
  ELSE allocation[Head(keys)].A + allocation[Head(keys)].R + SumCounts(Tail(keys), allocation)

\* C14: for every genotype of length chrom_len and every configuration (ratio gene
\* present, or fleet_ratio_fixed given) the decoded counts of ambulances and
\* rapid-response cars over all stations sum to total_vehicles, and every
\* per-station count is a non-negative integer.
C14_FleetTotal ==
  \A i \in DOMAIN outs :
    (Len(chrom) = ChromLen(opt) /\ ~outs[i].err) =>
      /\ SumCounts(outs[i].stations.keys, outs[i].alloc) = opt.total_vehicles
      /\ \A sid \in DOMAIN outs[i].alloc :
           outs[i].alloc[sid].A \in Nat /\ outs[i].alloc[sid].R \in Nat

\* C15: decoding a genotype whose length differs from chrom_len, shorter or longer,
\* is rejected with an error.
C15_LengthRejected ==
  \A i \in DOMAIN outs : Len(chrom) # ChromLen(opt) => outs[i].err

StationCount ==
  Cardinality(Range(stations_fixed.keys) \cup Range(opt.movable_station_ids))
\* number of genes before the vehicle-slot genes
SlotOffset ==
  2 * Len(opt.movable_station_ids) + (IF opt.fleet_ratio_fixed = NoRatio THEN 1 ELSE 0)

\* C17: with genes in [0,1] and at least one station, every vehicle-slot gene
\* decodes to a station index in 0..N-1 and every movable-station gene pair to a
\* cell of the n_rows x n_cols grid, so every vehicle built from the decoded
\* allocation has a home_station_id that is a key of the decoded station map.
C17_ValidIndices ==
  \A i \in DOMAIN outs :
    StationCount >= 1 =>
      /\ \A k \in DOMAIN chrom :
           k > SlotOffset => SlotIndex(chrom[k], StationCount) \in 0..(StationCount - 1)
      /\ ~outs[i].err =>
           LET built == VehicleListIn(outs[i].stations.keys, outs[i].alloc)
           IN  /\ \A j \in DOMAIN opt.movable_station_ids :
                    LET rc == outs[i].stations.val[opt.movable_station_ids[j]]
                    IN  rc[1] \in 0..(opt.n_rows - 1) /\ rc[2] \in 0..(opt.n_cols - 1)
               /\ \A j \in DOMAIN built :
                    built[j].home_station_id \in Range(outs[i].stations.keys)

\* two vehicles were placed at the two stations of a map whose keys are not list
\* indexes, and the movable station went to the last row of the grid
C17_Witness ==
  /\ Len(outs) >= 1
  /\ ~outs[1].err
  /\ stations_fixed.keys = <<7, 5>>
  /\ opt.movable_station_ids = <<5>>
  /\ outs[1].stations.val[5] = <<opt.n_rows - 1, 0>>
  /\ outs[1].alloc[7].A = 1
  /\ outs[1].alloc[5].R = 1

\* ------------------------------------------------------------ properties of _kpis

\* the calls of a category that have a recorded response time
Recorded(category) ==
  {cid \in DOMAIN response_times : calls[cid].category = category}

RECURSIVE SumCardiac(_)
SumCardiac(cids) ==
  IF cids = {} THEN 0
  ELSE LET cid == CHOOSE x \in cids : TRUE
       IN  survival_cardic_arrest(response_times[cid]) + SumCardiac(cids \ {cid})

fitness_warmup == 5400
\* number of _fitness calls made on one optimizer
MaxEvals == 3

\* mutant of SimVehicles: the vehicles of the previous evaluation are used again
SimVehicles_Reuse(prev, built) == IF DOMAIN prev = DOMAIN built THEN prev ELSE built

\* _fitness line 89: every evaluation builds its own Vehicle objects; the ones of
\* the Simulation of the previous evaluation (prev) are not touched
SimVehicles(prev, built) == built

\* build_vehicles_from_allocation(allocation) for a decoded allocation, followed by
\* Simulation.__init__'s loc book-keeping with the decoded stations
VehiclesOf(stn, allocation) ==
  LET l == VehicleListIn(stn.keys, allocation)
  IN  [vid \in 0..(Len(l) - 1) |->
        [vehicle_id |-> vid, kind |-> l[vid + 1].kind,
         home_station_id |-> l[vid + 1].home_station_id,
         busy |-> FALSE, route |-> <<>>,
         loc |-> stn.val[l[vid + 1].home_station_id],
         assigned_call |-> NoCall]]

\* the profile of CallProfiles with the given needs
ProfileOf(need_a, need_r) ==
  CHOOSE p \in CallProfiles : p.need_ambulances = need_a /\ p.need_rrc = need_r

\* the optimizer's calls: one call in the warm-up, the others 30 s apart from t_start
FitTimes == [i \in 1..NumCalls |-> IF i = 1 THEN 600 ELSE t_start + 30 * (i - 2)]
FitCalls ==
  { MakeCalls(FitTimes, [i \in 1..NumCalls |-> ProfileOf(1, 0)]),
    MakeCalls(FitTimes, [i \in 1..NumCalls |->
                           IF i % 2 = 1 THEN ProfileOf(1, 1) ELSE ProfileOf(1, 0)]) }

\* the configurations whose fixed mix, if any, is total_vehicles
FitConfigs ==
  {o \in OptConfigs : o.fleet_ratio_fixed = NoRatio
                        \/ o.fleet_ratio_fixed[1] + o.fleet_ratio_fixed[2] = o.total_vehicles}

\* the genotypes of length chrom_len that are evaluated: all genes 0, all genes 1,
\* alternating 0 and 1, alternating 1 and the gene next to 0
EvalChroms(o) ==
  { [i \in 1..ChromLen(o) |-> 0],
    [i \in 1..ChromLen(o) |-> GeneDen],
    [i \in 1..ChromLen(o) |-> IF i % 2 = 1 THEN 0 ELSE GeneDen],
    [i \in 1..ChromLen(o) |-> IF i % 2 = 1 THEN GeneDen ELSE 1] }

\* a constructed GAOptimizer with its calls and travel model
InitFitness ==
  /\ NoSimulationYet
  /\ calls \in FitCalls
  /\ opt \in FitConfigs
  /\ stations_fixed \in StationDicts
  /\ chrom = <<>>
  /\ outs = <<>>
  /\ evals = <<>>
  /\ NoRun

\* Simulation(calls, stations, vehicles, travel) for the decoded d (_fitness line
\* 89-96, Simulation.__init__), to be run with warmup_buffer = 90 * 60
SimulationNew(d) ==
  /\ vehicles' = SimVehicles(vehicles, VehiclesOf(d.stations, d.alloc))
  /\ sim_stations' = d.stations.val
  /\ warmup' = fitness_warmup
  /\ event_q' = <<>>
  /\ wait_q' = <<>>
  /\ now' = 0
  /\ response_times' = <<>>
  /\ call_assignments' = <<>>
  /\ pc' = "init"
  /\ nseq' = 0
  /\ disp' = <<>>
  /\ holding' = <<>>
  /\ kpi' = NoKpi

\* no Simulation is constructed: the one of the previous evaluation, if any, stays
SimulationKept ==
  UNCHANGED <<vehicles, event_q, wait_q, now, response_times, call_assignments, pc, nseq,
              disp, holding, kpi, sim_stations, warmup>>

\* the history of the last simulation step is empty
NoStep ==
  /\ handled' = NoEvent
  /\ popFifo' = TRUE
  /\ pushed' = <<>>
  /\ attempts' = <<>>
  /\ freed' = {}

\* _fitness line 88-96 on genotype ch: _decode, build_vehicles_from_allocation and
\* Simulation(...); an exception of _decode ends the call
FitnessBegin ==
  /\ pc \in {"none", "returned"}
  /\ Len(evals) < MaxEvals
  /\ \E ch \in EvalChroms(opt) :
       LET d == Decode(stations_fixed, opt, ch)
       IN  /\ chrom' = ch
           /\ stations_fixed' = d.stations_fixed
           /\ IF d.err
              THEN /\ evals' = Append(evals, [chrom |-> ch, err |-> TRUE, value |-> 0])
                   /\ SimulationKept
              ELSE /\ evals' = evals
                   /\ SimulationNew(d)
  /\ NoStep
  /\ UNCHANGED <<calls, speed, opt, outs, runVars>>

\* _fitness line 98-100: run has returned; return kpi["eta_s"]
FitnessEnd ==
  /\ pc = "done"
  /\ pc' = "returned"
  /\ evals' = Append(evals, [chrom |-> chrom, err |-> FALSE, value |-> kpi.eta_s])
  /\ UNCHANGED <<calls, speed, vehicles, event_q, wait_q, now, response_times,
                 call_assignments, nseq, handled, popFifo, pushed, attempts, freed, disp,
                 holding, kpi, sim_stations, warmup, opt, stations_fixed, chrom, outs,
                 runVars>>

NextFitness ==
  \/ FitnessBegin
  \/ RunStart
  \/ CallArrive
  \/ SceneDepart
  \/ JobComplete
  \/ LocUpdate
  \/ EndWarmup
  \/ EndStudy
  \/ FitnessEnd

SpecFitness == InitFitness /\ [][NextFitness]_vars

\* ------------------------------------------------------------ properties of _fitness

MaxGenerations == 2

\* best_fit before the first evaluation (every fitness is at least 0)
NoFit == 0 - 1

\* the values random.random() is drawn from
DrawGenes == {0, GeneDen}

\* [random.random() for _ in range(self.chrom_len)]
RandomChroms(o) == [1..ChromLen(o) -> DrawGenes]

\* [1.0 - g for g in chrom]
Mirror(ch) == [i \in DOMAIN ch |-> GeneDen - ch[i]]

\* _init_population: the populations it can return, as genes
InitPopulations(o, cfg) ==
  LET half == cfg.pop_size \div 2
      rest == Max2(0, cfg.pop_size - 2 * half)
  IN  { SubSeq([i \in 1..(2 * half + rest) |->
                  IF i <= half THEN a[i]
                  ELSE IF i <= 2 * half THEN Mirror(a[i - half])
                  ELSE b[i - 2 * half]], 1, cfg.pop_size) :
          a \in [1..half -> RandomChroms(o)], b \in [1..rest -> RandomChroms(o)] }

\* the reference of the next list object
NextRef(h) == IF DOMAIN h = {} THEN 1 ELSE (CHOOSE r \in DOMAIN h : \A x \in DOMAIN h : x <= r) + 1

\* the references of new list objects holding the genes gs, and the heap with them
RefsOf(h, gs) == [i \in 1..Len(gs) |-> NextRef(h) - 1 + i]
HeapWith(h, gs) ==
  [r \in DOMAIN h \cup {NextRef(h) - 1 + i : i \in 1..Len(gs)} |->
     IF r \in DOMAIN h THEN h[r] ELSE gs[r - (NextRef(h) - 1)]]

\* the objects of refs numbered by the position of their first occurrence, and the
\* heap that holds just these (whatever else was allocated is unreachable)
Canon(refs) ==
  [i \in DOMAIN refs |->
     CHOOSE j \in DOMAIN refs : refs[j] = refs[i] /\ \A k \in 1..(j - 1) : refs[k] # refs[i]]
CanonHeap(h, refs) == [r \in {Canon(refs)[i] : i \in DOMAIN refs} |-> h[refs[r]]]

\* max(range(len(P)), key=lambda i: F[i]): the first index of the largest value
ArgMaxFirst(fs) ==
  CHOOSE i \in DOMAIN fs : /\ \A j \in DOMAIN fs : fs[j] <= fs[i]
                           /\ \A j \in 1..(i - 1) : fs[j] < fs[i]

\* the best of the latest generation replaces the pair whatever its fitness
Better_Latest(f, best) == TRUE

\* run line 189: F[idx] > best_fit
Better(f, best) == f > best

\* sorted(zip(P, F), key=lambda x: x[1], reverse=True)[:elite_k]: the indices of P in
\* that order; the sort is stable, so equal values keep the order of P
EliteIndices(fs, k) ==
  LET rank(i) == Cardinality({j \in DOMAIN fs : fs[j] > fs[i] \/ (fs[j] = fs[i] /\ j < i)}) + 1
      order == [r \in 1..Len(fs) |-> CHOOSE i \in DOMAIN fs : rank(i) = r]
  IN  SubSeq(order, 1, Min2(Max2(k, 0), Len(fs)))

\* _tournament_select with the indices d drawn: the index of best
TournamentPick(fs, d) ==
  LET top == CHOOSE t \in DOMAIN d : \A u \in DOMAIN d : fs[d[u]] <= fs[d[t]]
      first == CHOOSE t \in DOMAIN d : /\ fs[d[t]] = fs[d[top]]
                                       /\ \A u \in 1..(t - 1) : fs[d[u]] < fs[d[top]]
  IN  d[first]

\* the indices _tournament_select(P, F, k=3) can pick
TournamentResults(fs) == {TournamentPick(fs, d) : d \in [1..3 -> DOMAIN fs]}

\* the values of beta = random.uniform(0.0, 1.1), in tenths
BetaTenths == {0, 5, 10, 11}

\* g1 + beta * (g2 - g1) in tenths of a gene unit
Blend(g1, g2, b) == 10 * g1 + b * (g2 - g1)
\* mutant of Clip: the blended gene is kept as it is
Clip_None(x) == x

\* min(1.0, max(0.0, x)), in tenths of a gene unit
Clip(x) == Min2(10 * GeneDen, Max2(0, x))

\* _crossover(p1, p2) with the swaps mask, the blended positions idxs and beta b
\* drawn: c1 and c2, in tenths of a gene unit
Crossover(p1, p2, mask, idxs, b) ==
  LET s1 == [i \in DOMAIN p1 |-> IF mask[i] THEN p2[i] ELSE p1[i]]
      s2 == [i \in DOMAIN p1 |-> IF mask[i] THEN p1[i] ELSE p2[i]]
  IN  << [i \in DOMAIN p1 |-> Clip(IF i \in idxs THEN Blend(s1[i], s2[i], b) ELSE 10 * s1[i])],
         [i \in DOMAIN p1 |-> Clip(IF i \in idxs THEN Blend(s2[i], s1[i], b) ELSE 10 * s2[i])] >>

\* the children are again multiples of the gene unit (a gene outside [0,1], which
\* only a missing clip can leave, is taken as it is)
OnGrid(cc) ==
  \A k \in 1..2 : \A i \in DOMAIN cc[k] :
    cc[k][i] % 10 = 0 \/ cc[k][i] < 0 \/ cc[k][i] > 10 * GeneDen

\* the pairs of children _crossover(p1, p2) can return, for the draws that keep the
\* genes multiples of the gene unit
CrossoverResults(p1, p2) ==
  { << [i \in DOMAIN p1 |-> cc[1][i] \div 10], [i \in DOMAIN p1 |-> cc[2][i] \div 10] >> :
      cc \in { x \in { Crossover(p1, p2, mask, idxs, b) :
                         mask \in [DOMAIN p1 -> BOOLEAN],
                         idxs \in {z \in SUBSET DOMAIN p1 :
                                     Cardinality(z) = Max2(1, Len(p1) \div 2)},
                         b \in BetaTenths } : OnGrid(x) } }

\* the whole of P_next is handed to _mutate
MutateFrom_Start(elite_k) == 0

\* run line 181: the slice P_next[elite_k:] handed to _mutate starts after this index
MutateFrom(elite_k) == elite_k

\* _mutate: P[i][j] = random.random() for the draws ds, on the list objects of region
RECURSIVE ApplyMutations(_, _, _, _)
ApplyMutations(h, region, ds, k) ==
  IF k > Len(ds) THEN h
  ELSE ApplyMutations([h EXCEPT ![region[ds[k][1]]][ds[k][2]] = ds[k][3]], region, ds, k + 1)

\* the configurations of the genetic loop: an elite and a mutation per generation,
\* and an odd population without elite and with the default mutation rate
GAConfigs ==
  { [pop_size |-> 2, rm |-> 50, elite_k |-> 1, generations |-> MaxGenerations],
    [pop_size |-> 3, rm |-> 4, elite_k |-> 0, generations |-> MaxGenerations] }

\* the optimizer of one vehicle over fixed stations: a ratio gene and a slot gene
GAOpt ==
  [n_rows |-> 26, n_cols |-> 22, movable_station_ids |-> <<>>, total_vehicles |-> 1,
   fleet_ratio_fixed |-> NoRatio]

\* its calls: cardiac arrests that one ambulance serves
GACalls == MakeCalls(FitTimes, [i \in 1..NumCalls |-> ProfileOf(1, 0)])

\* a constructed GAOptimizer before run()
InitGA ==
  /\ NoSimulationYet
  /\ calls = GACalls
  /\ opt = GAOpt
  /\ stations_fixed \in {sf \in StationDicts : sf.keys = <<0, 1>>}
  /\ chrom = <<>>
  /\ outs = <<>>
  /\ evals = <<>>
  /\ ga_cfg \in GAConfigs
  /\ run = [pc |-> "start", P |-> <<>>, F |-> <<>>, P_next |-> <<>>, best_ch |-> <<>>,
            best_fit |-> NoFit, gen |-> 0]
  /\ heap = <<>>
  /\ ghist = [n |-> 0, max |-> NoFit, argmax |-> {}, elite_genes |-> <<>>, n_mut |-> 0]

\* run line 152: P = self._init_population()
GAInitPopulation ==
  /\ run.pc = "start"
  /\ \E gs \in InitPopulations(opt, ga_cfg) :
       /\ heap' = HeapWith(heap, gs)
       /\ run' = [run EXCEPT !.pc = "init_eval", !.P = RefsOf(heap, gs), !.F = <<>>]
  /\ UNCHANGED <<opt, stations_fixed, chrom, outs, evals, ga_cfg, ghist, simVars>>

\* run line 153 and 185: self._fitness(ch) for the next ch of P, up to the start of
\* the simulation run; an exception of _decode leaves run()
GAEvalBegin ==
  /\ run.pc \in {"init_eval", "gen_eval"}
  /\ Len(run.F) < Len(run.P)
  /\ pc \in {"none", "returned"}
  /\ LET ch == heap[run.P[Len(run.F) + 1]]
         d == Decode(stations_fixed, opt, ch)
     IN  /\ chrom' = ch
         /\ stations_fixed' = d.stations_fixed
         /\ IF d.err
            THEN /\ run' = [run EXCEPT !.pc = "raised"]
                 /\ SimulationKept
            ELSE /\ run' = run
                 /\ SimulationNew(d)
  /\ NoStep
  /\ UNCHANGED <<calls, speed, opt, outs, evals, ga_cfg, heap, ghist>>

\* _fitness line 98-100 inside run line 153 and 185: the value joins F
GAEvalEnd ==
  /\ run.pc \in {"init_eval", "gen_eval"}
  /\ pc = "done"
  /\ pc' = "returned"
  /\ run' = [run EXCEPT !.F = Append(@, kpi.eta_s)]
  /\ ghist' = [ghist EXCEPT !.n = @ + 1,
                            !.max = Max2(@, kpi.eta_s),
                            !.argmax = IF kpi.eta_s > ghist.max THEN {chrom}
                                       ELSE IF kpi.eta_s = ghist.max THEN @ \cup {chrom}
                                       ELSE @]
  /\ UNCHANGED <<calls, speed, vehicles, event_q, wait_q, now, response_times,
                 call_assignments, nseq, handled, popFifo, pushed, attempts, freed, disp,
                 holding, kpi, sim_stations, warmup, opt, stations_fixed, chrom, outs,
                 evals, ga_cfg, heap>>

\* mutant of AfterTrack: run returns as soon as a population has been tracked
AfterTrack_Stop(g) == "returned"

\* after the last tracking step: the next generation, or return best_ch, best_fit
AfterTrack(g) == IF g < ga_cfg.generations THEN "elites" ELSE "returned"

\* run line 155-157: the best of the initial population; max() of an empty range raises
GATrackInit ==
  /\ run.pc = "init_eval"
  /\ Len(run.F) = Len(run.P)
  /\ pc \in {"none", "returned"}
  /\ IF Len(run.P) = 0
     THEN run' = [run EXCEPT !.pc = "raised"]
     ELSE LET best_idx == ArgMaxFirst(run.F)
          IN  run' = [run EXCEPT !.best_ch = heap[run.P[best_idx]],
                                 !.best_fit = run.F[best_idx],
                                 !.pc = AfterTrack(0)]
  /\ UNCHANGED <<opt, stations_fixed, chrom, outs, evals, ga_cfg, heap, ghist, simVars>>

\* run line 187-191, and the end of the loop body
GATrack ==
  /\ run.pc = "gen_eval"
  /\ Len(run.F) = Len(run.P)
  /\ pc \in {"none", "returned"}
  /\ LET idx == ArgMaxFirst(run.F)
     IN  run' = [run EXCEPT !.best_fit = IF Better(run.F[idx], @) THEN run.F[idx] ELSE @,
                            !.best_ch = IF Better(run.F[idx], run.best_fit)
                                        THEN heap[run.P[idx]] ELSE @,
                            !.gen = @ + 1,
                            !.pc = AfterTrack(run.gen + 1)]
  /\ UNCHANGED <<opt, stations_fixed, chrom, outs, evals, ga_cfg, heap, ghist, simVars>>

\* run line 161-165: the elites are deep copies and start P_next
GAElites ==
  /\ run.pc = "elites"
  /\ LET order == EliteIndices(run.F, ga_cfg.elite_k)
         gs == [i \in DOMAIN order |-> heap[run.P[order[i]]]]
     IN  /\ heap' = HeapWith(heap, gs)
         /\ run' = [run EXCEPT !.pc = "fill", !.P_next = RefsOf(heap, gs)]
         /\ ghist' = [ghist EXCEPT !.elite_genes = gs, !.n_mut = 0]
  /\ UNCHANGED <<opt, stations_fixed, chrom, outs, evals, ga_cfg, simVars>>

\* run line 168-175: one round of the fill loop that crosses two selected parents
GAFillCrossover ==
  /\ run.pc = "fill"
  /\ Len(run.P_next) < ga_cfg.pop_size
  /\ \E a, b \in TournamentResults(run.F) :
       \E cc \in CrossoverResults(heap[run.P[a]], heap[run.P[b]]) :
         LET gs == IF Len(run.P_next) + 1 < ga_cfg.pop_size THEN cc ELSE <<cc[1]>>
         IN  /\ heap' = HeapWith(heap, gs)
             /\ run' = [run EXCEPT !.P_next = @ \o RefsOf(heap, gs)]
  /\ UNCHANGED <<opt, stations_fixed, chrom, outs, evals, ga_cfg, ghist, simVars>>

\* run line 176-178: one round of the fill loop that carries a selected parent over
GAFillCarry ==
  /\ run.pc = "fill"
  /\ Len(run.P_next) < ga_cfg.pop_size
  /\ \E a \in TournamentResults(run.F) :
       LET gs == <<heap[run.P[a]]>>
       IN  /\ heap' = HeapWith(heap, gs)
           /\ run' = [run EXCEPT !.P_next = @ \o RefsOf(heap, gs)]
  /\ UNCHANGED <<opt, stations_fixed, chrom, outs, evals, ga_cfg, ghist, simVars>>

\* run line 181-184: self._mutate(P_next[elite_k:]) and P = P_next
GAMutate ==
  /\ run.pc = "fill"
  /\ Len(run.P_next) >= ga_cfg.pop_size
  /\ LET region == SubSeq(run.P_next, MutateFrom(ga_cfg.elite_k) + 1, Len(run.P_next))
         n_genes == Len(region) * ChromLen(opt)
         n_mut == RoundHalfEven(ga_cfg.rm * n_genes, 100)
     IN  \E ds \in [1..n_mut -> (1..Len(region)) \X (1..ChromLen(opt)) \X DrawGenes] :
           /\ heap' = CanonHeap(ApplyMutations(heap, region, ds, 1), run.P_next)
           /\ run' = [run EXCEPT !.pc = "gen_eval", !.P = Canon(run.P_next), !.F = <<>>,
                                 !.P_next = <<>>]
           /\ ghist' = [ghist EXCEPT !.n_mut = n_mut]
  /\ UNCHANGED <<opt, stations_fixed, chrom, outs, evals, ga_cfg, simVars>>

NextGA ==
  \/ GAInitPopulation
  \/ GAEvalBegin
  \/ RunStart
  \/ CallArrive
  \/ SceneDepart
  \/ JobComplete
  \/ LocUpdate
  \/ EndWarmup
  \/ EndStudy
  \/ GAEvalEnd
  \/ GATrackInit
  \/ GATrack
  \/ GAElites
  \/ GAFillCrossover
  \/ GAFillCarry
  \/ GAMutate

SpecGA == InitGA /\ [][NextGA]_vars

\* ------------------------------------------------------------ properties of run

\* best_ch, best_fit are up to date: tracking has run on every evaluated population
Tracked_Through == run.pc \in {"elites", "fill", "returned"}

\* C18: best_fit never decreases from one generation to the next, and the pair that
\* run returns (and the pair held after every tracking step) has the largest fitness
\* evaluated so far over all individuals of all generations, the initial population
\* included, with best_ch a genotype that was evaluated to that fitness.
C18_BestSoFar ==
  /\ [](Tracked_Through =>
          /\ run.best_fit = ghist.max
          /\ run.best_ch \in ghist.argmax)
  /\ [][run.pc \notin {"start", "init_eval"} => run'.best_fit >= run.best_fit]_vars

\* run has returned after its last generation, whose whole population is worse than
\* the returned best_fit and does not hold the returned best_ch
C18_Witness ==
  /\ run.pc = "returned"
  /\ run.gen = MaxGenerations
  /\ ghist.n = ga_cfg.pop_size * (MaxGenerations + 1)
  /\ \A i \in DOMAIN run.F : run.F[i] < run.best_fit
  /\ \A i \in DOMAIN run.P : heap[run.P[i]] # run.best_ch

\* the generation that holds the elites: P_next while it is filled, P afterwards
EliteHolder == IF run.pc = "fill" THEN run.P_next ELSE run.P

\* the elites have been copied into the generation in EliteHolder
ElitesPlaced ==
  \/ run.pc \in {"fill", "gen_eval"}
  \/ run.pc \in {"elites", "returned"} /\ run.gen > 0

\* es are the genes of the n highest-fitness members of the population ps with
\* fitness fs: n distinct members, none of the others better than any of them
TopOf(es, n, ps, fs) ==
  /\ Len(es) = n
  /\ \E f \in [1..n -> DOMAIN ps] :
       /\ \A i, j \in 1..n : f[i] = f[j] => i = j
       /\ \A i \in 1..n : es[i] = heap[ps[f[i]]]
       /\ \A i \in 1..n : \A j \in DOMAIN ps \ {f[x] : x \in 1..n} : fs[j] <= fs[f[i]]

\* C19: the elite_k highest-fitness chromosomes of a generation are the first
\* elite_k members of the next one, gene for gene, and stay so while the rest is
\* filled by crossover and carry-over, mutated and evaluated; an elite is no list
\* object of the previous generation nor of the mutated region.
C19_Elitism ==
  /\ [](ElitesPlaced =>
          /\ Len(ghist.elite_genes) <= Len(EliteHolder)
          /\ \A i \in DOMAIN ghist.elite_genes :
               /\ heap[EliteHolder[i]] = ghist.elite_genes[i]
               /\ \A j \in DOMAIN EliteHolder : j # i => EliteHolder[j] # EliteHolder[i])
  /\ [][run.pc = "elites" =>
          /\ TopOf(ghist'.elite_genes, Min2(ga_cfg.elite_k, Len(run.P)), run.P, run.F)
          /\ \A i \in DOMAIN run'.P_next : \A j \in DOMAIN run.P :
               run'.P_next[i] # run.P[j]]_vars

\* the second generation is evaluated: its first member is the elite of the first,
\* which was itself the elite of the initial population, and a mutation was applied
\* to the other member, which differs from the elite
C19_Witness ==
  /\ run.pc = "gen_eval"
  /\ run.gen = 1
  /\ Len(run.F) = Len(run.P)
  /\ ga_cfg.elite_k = 1
  /\ ghist.n_mut > 0
  /\ heap[run.P[1]] = ghist.elite_genes[1]
  /\ heap[run.P[2]] # heap[run.P[1]]
  /\ run.F[2] < run.F[1]

\* ------------------------------------------------------------ _kpis on its own

\* recorded response times, in seconds: none, the 8 minutes of survival_catA and the
\* second after, and a wait of two hours
KpiTimes == {0, 480, 481, 7200}

\* the categories of the calls
KpiCategories == {"cardiac", "catA", "catC"}

\* the calls of a Simulation, of every category
KpiCalls ==
  { MakeCalls([i \in 1..NumCalls |-> t_start],
              [i \in 1..NumCalls |-> [ProfileOf(1, 0) EXCEPT !.category = cat[i]]]) :
      cat \in [1..NumCalls -> KpiCategories] }

\* the contents of self.response_times: any of the calls, with any of the times
KpiResponseTimes == UNION {[D -> KpiTimes] : D \in SUBSET (1..NumCalls)}

\* a Simulation whose _loop(until=t_end) has ended with these response times
InitKpis ==
  /\ NoOptimizer
  /\ calls \in KpiCalls
  /\ response_times \in KpiResponseTimes
  /\ pc = "study"
  /\ speed = 45
  /\ sim_stations = stations
  /\ warmup = warmup_buffer
  /\ vehicles = <<>>
  /\ event_q = <<>>
  /\ wait_q = <<>>
  /\ now = t_end
  /\ call_assignments = <<>>
  /\ nseq = 0
  /\ handled = NoEvent
  /\ popFifo = TRUE
  /\ pushed = <<>>
  /\ attempts = <<>>
  /\ freed = {}
  /\ disp = <<>>
  /\ holding = <<>>
  /\ kpi = NoKpi

\* run line 161: return self._kpis()
NextKpis == EndStudy

SpecKpis == InitKpis /\ [][NextKpis]_vars

\* the survival value _kpis adds for a recorded call (0 for an untracked category)
SurvivalOf(cid) ==
  IF calls[cid].category = "cardiac" THEN survival_cardic_arrest(response_times[cid])
  ELSE IF calls[cid].category = "catA" THEN survival_catA(response_times[cid])
  ELSE 0

\* C21: for every set of calls and recorded response times, every survival value
\* is in [0,1] and the objective eta_s that run returns is in [0,1].
C21_ObjectiveRange ==
  /\ \A cid \in DOMAIN response_times : 0 <= SurvivalOf(cid) /\ SurvivalOf(cid) <= Unit
  /\ pc = "done" => 0 <= kpi.eta_s /\ kpi.eta_s <= Unit

\* run returned a value strictly inside [0,1] from two cardiac calls and a catA call,
\* one of whose survival values is the largest a category can give
C21_Witness ==
  /\ pc = "done"
  /\ kpi.cardiac_calls = 2
  /\ kpi.catA_calls = 1
  /\ \E cid \in DOMAIN response_times : SurvivalOf(cid) = Unit
  /\ 0 < kpi.eta_s
  /\ kpi.eta_s < Unit

\* ------------------------------------------------------------ properties of the routes

\* a JOB_COMPLETE that names vid as the transporter is pending
Transporting(vid) ==
  \E i \in DOMAIN event_q : event_q[i].etype = "JOB_COMPLETE" /\ event_q[i].vid = vid

\* the destination of the latest _begin_travel_to of vid: the scene of its call, the
\* hospital of its call once it transports, its home station once it is available
Destination(vid) ==
  LET v == vehicles[vid]
  IN  IF ~v.busy THEN sim_stations[v.home_station_id]
      ELSE IF Transporting(vid) THEN calls[v.assigned_call].loc_hospital
      ELSE calls[v.assigned_call].loc_scene

\* the LOC_UPDATE events pushed by the last step
Ticks == SelectSeq(pushed, LAMBDA ev : ev.etype = "LOC_UPDATE")

\* C22: a route that is not exhausted starts at the vehicle's loc and ends at the
\* destination of its latest _begin_travel_to; when a LOC_UPDATE leaves the route
\* empty, loc is that destination and the handler schedules no LOC_UPDATE, and while
\* waypoints remain it schedules exactly one, loc_update_period later.
C22_RouteCompletion ==
  /\ \A vid \in DOMAIN vehicles :
       LET v == vehicles[vid]
       IN  /\ v.route # <<>> => v.route[1] = v.loc /\ v.route[Len(v.route)] = Destination(vid)
           /\ v.route = <<>> => v.loc = Destination(vid)
  /\ handled.etype = "LOC_UPDATE" =>
       LET v == vehicles[handled.vid]
       IN  /\ v.route = <<>> => pushed = <<>>
           /\ v.route # <<>> =>
                /\ Len(pushed) = 1
                /\ pushed[1].etype = "LOC_UPDATE"
                /\ pushed[1].vid = handled.vid
                /\ pushed[1].time = now + loc_update_period

\* a LOC_UPDATE has just exhausted the route of a transporting ambulance, which is at
\* the hospital, away from the scene and from its home station, and pushed nothing
C22_Witness ==
  /\ handled.etype = "LOC_UPDATE"
  /\ pushed = <<>>
  /\ vehicles[handled.vid].route = <<>>
  /\ vehicles[handled.vid].busy
  /\ Transporting(handled.vid)
  /\ vehicles[handled.vid].loc = calls[vehicles[handled.vid].assigned_call].loc_hospital
  /\ vehicles[handled.vid].loc # calls[vehicles[handled.vid].assigned_call].loc_scene
  /\ vehicles[handled.vid].loc # sim_stations[vehicles[handled.vid].home_station_id]

\* the pending LOC_UPDATE events of vid
PendingTicks(vid) ==
  {i \in DOMAIN event_q : event_q[i].etype = "LOC_UPDATE" /\ event_q[i].vid = vid}

\* C23: at any time at most one LOC_UPDATE event is pending per vehicle (so that a
\* vehicle advances one waypoint per loc_update_period and stays where it is until
\* the departure time of a new route), also when it is re-routed while a tick of an
\* earlier journey is pending.
C23_OneTickPending ==
  \A vid \in DOMAIN vehicles : Cardinality(PendingTicks(vid)) <= 1

\* the list objects of the populations: P, and P_next while it is built
Individuals == {run.P[i] : i \in DOMAIN run.P} \cup {run.P_next[i] : i \in DOMAIN run.P_next}

\* C24: every gene of every individual of every population (initial, elites,
\* offspring of crossover, carried-over and mutated individuals) is in [0,1], in
\* every generation, and so is every gene of best_ch.
C24_GenesInRange ==
  /\ \A r \in Individuals : \A i \in DOMAIN heap[r] : 0 <= heap[r][i] /\ heap[r][i] <= GeneDen
  /\ \A i \in DOMAIN run.best_ch : 0 <= run.best_ch[i] /\ run.best_ch[i] <= GeneDen

\* the last generation holds an individual with a gene strictly inside (0,1), which
\* only a blend of _crossover produces, next to genes 0 and 1, after a mutation
C24_Witness ==
  /\ run.pc = "gen_eval"
  /\ run.gen = MaxGenerations - 1
  /\ ghist.n_mut > 0
  /\ \E r \in Individuals : \E i \in DOMAIN heap[r] : 0 < heap[r][i] /\ heap[r][i] < GeneDen
  /\ \E r \in Individuals : \E i \in DOMAIN heap[r] : heap[r][i] = 0
  /\ \E r \in Individuals : \E i \in DOMAIN heap[r] : heap[r][i] = GeneDen

\* a is before b in the lexicographic order
LexLess(a, b) ==
  \E i \in 1..Len(a) : a[i] < b[i] /\ \A j \in 1..(i - 1) : a[j] = b[j]

\* where run() is in its generation: the statements of the loop body in their order
RunStage ==
  CASE run.pc = "start" -> 0
    [] run.pc = "init_eval" -> 1
    [] run.pc = "elites" -> 2
    [] run.pc = "fill" -> 3
    [] run.pc = "gen_eval" -> 4
    [] OTHER -> 5

\* where the simulation of the current _fitness call is
SimStage ==
  CASE pc = "init" -> 1
    [] pc = "warmup" -> 2
    [] pc = "study" -> 3
    [] pc = "done" -> 4
    [] OTHER -> 0

\* the progress of run(): generation, statement, individuals placed in P_next,
\* individuals evaluated, and inside an evaluation the events pushed and left
RunProgress ==
  <<run.gen, RunStage, Len(run.P_next), Len(run.F), SimStage, nseq, 0 - Len(event_q)>>

\* C25: every step of run moves it forward, so that no loop of it runs for ever, and
\* only after ga_cfg.generations generations does it return; every population it
\* evaluates has pop_size individuals, the population being filled never has more,
\* and _fitness has been called pop_size * (generations + 1) times when run returns.
C25_RunTerminates ==
  /\ [][LexLess(RunProgress, RunProgress')]_vars
  /\ [](/\ run.pc \in {"init_eval", "gen_eval", "elites", "fill", "returned"} =>
             Len(run.P) = ga_cfg.pop_size
        /\ Len(run.P_next) <= ga_cfg.pop_size
        /\ Len(run.F) <= ga_cfg.pop_size
        /\ run.gen <= ga_cfg.generations
        /\ run.pc # "raised"
        /\ run.pc = "returned" =>
             /\ run.gen = ga_cfg.generations
             /\ ghist.n = ga_cfg.pop_size * (ga_cfg.generations + 1))

\* run has returned for the odd population, after MaxGenerations generations and
\* pop_size evaluations for each of them and for the initial population
C25_Witness ==
  /\ run.pc = "returned"
  /\ ga_cfg.pop_size = 3
  /\ ga_cfg.generations = MaxGenerations
  /\ run.gen = MaxGenerations
  /\ Len(run.F) = 3
  /\ ghist.n = 3 * (MaxGenerations + 1)

\* ------------------------------------------------------------ calls that need no vehicle
\* Call.need_ambulances and Call.need_rrc are plain ints taken from the data; nothing
\* in Call or in Simulation.__init__ requires one of them to be positive.

\* a call that requires zero ambulances and zero rapid-response cars
NoNeedProfile == [ProfileOf(1, 0) EXCEPT !.need_ambulances = 0]

\* arrival times inside the warm-up and inside the measured window
NoNeedTimes == {600, 1200, 1230}

NoNeedInputs ==
  {<<t, p>> \in SortedTimes \X [1..NumCalls -> {NoNeedProfile, ProfileOf(1, 0), ProfileOf(1, 1)}] :
     \A i \in 1..NumCalls : t[i] \in NoNeedTimes}

\* the state after Simulation.__init__ on such calls
InitNoNeed ==
  /\ NoOptimizer
  /\ sim_stations = stations
  /\ warmup = warmup_buffer
  /\ calls \in {MakeCalls(x[1], x[2]) : x \in NoNeedInputs}
  /\ speed \in Speeds
  /\ vehicles \in {build_vehicles_from_allocation(a) : a \in Allocations}
  /\ event_q = <<>>
  /\ wait_q = <<>>
  /\ now = 0
  /\ response_times = <<>>
  /\ call_assignments = <<>>
  /\ pc = "init"
  /\ nseq = 0
  /\ handled = NoEvent
  /\ popFifo = TRUE
  /\ pushed = <<>>
  /\ attempts = <<>>
  /\ freed = {}
  /\ disp = <<>>
  /\ holding = <<>>
  /\ kpi = NoKpi

SpecNoNeed == InitNoNeed /\ [][Next]_vars

\* the idle vehicles meet the full requirement of the call
IdleSuffice(cid) ==
  /\ IdleCount(vehicles, "A") >= calls[cid].need_ambulances
  /\ IdleCount(vehicles, "R") >= calls[cid].need_rrc

\* C26: between two events no call is waiting while the idle vehicles meet its
\* full requirement, a requirement of zero vehicles included.
C26_WorkConserving == \A i \in DOMAIN wait_q : ~IdleSuffice(wait_q[i])

\* the same for the calls that require at least one vehicle
WorkConservingForNeed ==
  \A i \in DOMAIN wait_q :
    calls[wait_q[i]].need_ambulances + calls[wait_q[i]].need_rrc > 0 => ~IdleSuffice(wait_q[i])

\* ------------------------------------------------------------ vehicles and calls over a run

\* a pending event whose handler makes the vehicle available: the SCENE_DEPART of
\* the call it is assigned to, or a JOB_COMPLETE with the vehicle as transporter
HasFreeingEvent(vid) ==
  \E i \in DOMAIN event_q :
    \/ /\ event_q[i].etype = "SCENE_DEPART"
       /\ event_q[i].call = vehicles[vid].assigned_call
       /\ event_q[i].call \in DOMAIN call_assignments
       /\ vid \in Range(call_assignments[event_q[i].call])
    \/ /\ event_q[i].etype = "JOB_COMPLETE"
       /\ event_q[i].vid = vid

\* C27: every busy vehicle has a pending SCENE_DEPART of its assigned call or a
\* pending JOB_COMPLETE naming it, and a vehicle made available by a step was busy
\* for the call of the SCENE_DEPART or JOB_COMPLETE event that the step handled.
C27_NoVehicleLeaked ==
  /\ [](\A vid \in DOMAIN vehicles : vehicles[vid].busy => HasFreeingEvent(vid))
  /\ [][\A vid \in freed' :
          /\ handled'.etype \in {"SCENE_DEPART", "JOB_COMPLETE"}
          /\ vehicles[vid].busy
          /\ vehicles[vid].assigned_call = handled'.call]_vars

\* a SCENE_DEPART has released one vehicle of its call while the transporter stays
\* busy with its JOB_COMPLETE pending
C27_Witness ==
  /\ handled.etype = "SCENE_DEPART"
  /\ freed # {}
  /\ \E vid \in DOMAIN vehicles :
       /\ vehicles[vid].busy
       /\ vehicles[vid].assigned_call = handled.call
       /\ \E i \in DOMAIN event_q :
            event_q[i].etype = "JOB_COMPLETE" /\ event_q[i].vid = vid

\* the SCENE_DEPART events among evs that are for call cid
SceneDepartsFor(evs, cid) ==
  {i \in DOMAIN evs : evs[i].etype = "SCENE_DEPART" /\ evs[i].call = cid}

\* C28: an entry of call_assignments or of response_times never changes once it is
\* written, a step pushes exactly one SCENE_DEPART for each call it dispatches and
\* none for any other call, and wait_q holds no call id twice and no call id that
\* has an assignment.
C28_DispatchedOnce ==
  /\ [](/\ \A i, j \in DOMAIN wait_q : wait_q[i] = wait_q[j] => i = j
        /\ \A i \in DOMAIN wait_q : wait_q[i] \notin DOMAIN call_assignments)
  /\ [][/\ \A cid \in DOMAIN call_assignments :
             /\ cid \in DOMAIN call_assignments'
             /\ call_assignments'[cid] = call_assignments[cid]
        /\ \A cid \in DOMAIN response_times :
             /\ cid \in DOMAIN response_times'
             /\ response_times'[cid] = response_times[cid]
        /\ \A cid \in 1..NumCalls :
             Cardinality(SceneDepartsFor(pushed', cid)) =
               IF cid \in DOMAIN call_assignments' \ DOMAIN call_assignments THEN 1 ELSE 0]_vars

\* a call that waited has been dispatched from wait_q while another call, which
\* arrived later, still waits
C28_Witness ==
  /\ handled.etype \in {"SCENE_DEPART", "JOB_COMPLETE"}
  /\ \E cid \in DOMAIN call_assignments :
       /\ disp[cid].via = "queue"
       /\ Cardinality(SceneDepartsFor(pushed, cid)) = 1
  /\ wait_q # <<>>

\* the fleet has the vehicles the call requires
FleetCanMeet(cid) ==
  /\ Cardinality({vid \in DOMAIN vehicles : vehicles[vid].kind = "A"}) >= calls[cid].need_ambulances
  /\ Cardinality({vid \in DOMAIN vehicles : vehicles[vid].kind = "R"}) >= calls[cid].need_rrc

\* the call arrives in [t_start - warmup_buffer, t_end)
InWindow(cid) == warm_lo <= calls[cid].t_call /\ calls[cid].t_call < t_end

\* run has returned with every scheduled event handled
AllEventsHandled == pc = "done" /\ event_q = <<>>

\* C29: when run returns with every scheduled event handled, each call of the
\* window whose requirement the fleet can meet has left wait_q with vehicles assigned.
C29_WaitListServed ==
  AllEventsHandled =>
    \A cid \in 1..NumCalls :
      InWindow(cid) /\ FleetCanMeet(cid) =>
        /\ cid \in DOMAIN call_assignments
        /\ call_assignments[cid] # <<>>
        /\ cid \notin Range(wait_q)

\* run has returned with every event handled after a call was served from wait_q
WaitListServedCase ==
  /\ AllEventsHandled
  /\ \E cid \in DOMAIN disp : disp[cid].via = "queue"

====
